---------------------------- MODULE Spec2Model ----------------------------
(***************************************************************************)
(* A model of Status Bot (jryio/statusbot): the command parser, the Zulip  *)
(* username normaliser, the grid placement of the bot next to a desk, the  *)
(* desk update sequence, and the desk-owner directory with its name        *)
(* corrections.                                                            *)
(*                                                                         *)
(* Text is modelled as a sequence of characters, each character a string   *)
(* of length one, so that the regular expressions of consts.rs are         *)
(* evaluated character by character as the regex crate evaluates them      *)
(* (leftmost-first, greedy and lazy repetition).  An Option<T> is a        *)
(* sequence of length at most one: << >> is None, <<v>> is Some(v).        *)
(***************************************************************************)
EXTENDS Integers, Sequences, FiniteSets, TLC

VARIABLES
    \* Bot::parse_zulip_username applied once and twice
    zulip_username, replaced_name, replaced_twice, name_pc,
    \* Bot::parse_cmd: the message, the Command returned (an Option)
    message, command,
    \* Bot::parse_status: the input, the Status returned (an Option)
    input, status,
    \* OffsetDateTime::now_utc() during the call, and the call's position
    now, parse_pc,
    \* Status::from and Display: the StatusParts a Status is built from (an
    \* Option), the string the Status renders as (an Option) and the Status
    \* parse_status reads from that string (an Option)
    parts, display, reparsed,
    \* RecurseClient::update_desk: the target desk, whether the build checks
    \* arithmetic overflow, the result of surrounding_positions (an Option),
    \* the relocation requests sent to PATCH /api/bots/:id with what became of
    \* each, the number of requests sent to PATCH /api/desks/:id, the value
    \* returned (an Option) and the call's position
    desk_id, desk_pos, overflow_checks, positions, bot_requests, desk_requests,
    update_result, desk_pc,
    \* Bot: the two tables behind their locks
    desk_owners, corrected_names,
    \* The background refresh task: its position, the map built from the
    \* answer of get_desks while the write lock is held (an Option), and the
    \* desks of the last answer that get_desks returned Ok for (an Option),
    \* and the Result of the last cache_desk_owners that the task logged
    refresh_pc, fetched, last_fetch, refresh_result,
    \* Bot::respond, for each of the handlers running it: the webhook being
    \* handled (an Option), what lookup_desk_id returned for its sender, the
    \* requests respond sent to move the avatar home and the Result of
    \* send_bot_home (an Option), the Reply returned (an Option) and the
    \* handler's position; the name _cmd_test_lookup_desk has resolved
    \* before it asks for the directory (an Option); and the Command that
    \* respond has parsed from the webhook's data (an Option)
    webhook, entry, home_requests, home_result, reply, respond_pc, looked_up,
    handler_command

nameVars == <<zulip_username, replaced_name, replaced_twice, name_pc>>
parseVars == <<message, command, input, status, now, parse_pc, parts, display, reparsed>>
deskVars == <<desk_id, desk_pos, overflow_checks, positions, bot_requests,
              desk_requests, update_result, desk_pc>>
botVars == <<desk_owners, corrected_names, refresh_pc, fetched, last_fetch,
             refresh_result, webhook, entry, home_requests, home_result, reply,
             respond_pc, looked_up, handler_command>>
vars == <<nameVars, parseVars, deskVars, botVars>>

(***************************************************************************)
(* Characters and strings                                                  *)
(***************************************************************************)
Lower == {"a","b","c","d","e","f","g","h","i","j","k","l","m",
          "n","o","p","q","r","s","t","u","v","w","x","y","z"}
Digit == {"0","1","2","3","4","5","6","7","8","9"}
\* char::is_whitespace restricted to the characters of the model
WhiteSpace == {" ", "\t", "\n", "\r"}

RECURSIVE Concat(_)
\* The concatenation of a sequence of strings
Concat(ss) ==
    IF ss = << >> THEN << >> ELSE Head(ss) \o Concat(Tail(ss))

\* s[i..] starts with the literal lit
StartsWithAt(s, i, lit) ==
    /\ i + Len(lit) - 1 <= Len(s)
    /\ \A k \in 1..Len(lit) : s[i + k - 1] = lit[k]

\* lit occurs in s
IsInfix(lit, s) ==
    \E i \in 1..(Len(s) + 1) : StartsWithAt(s, i, lit)

RECURSIVE TrimStart(_)
TrimStart(s) ==
    IF s # << >> /\ Head(s) \in WhiteSpace THEN TrimStart(Tail(s)) ELSE s

RECURSIVE TrimEnd(_)
TrimEnd(s) ==
    IF s # << >> /\ s[Len(s)] \in WhiteSpace
    THEN TrimEnd(SubSeq(s, 1, Len(s) - 1))
    ELSE s

\* str::trim
Trim(s) == TrimEnd(TrimStart(s))

(***************************************************************************)
(* The username normaliser                                                 *)
(***************************************************************************)
RECURSIVE PronounRun(_, _)
\* [a-z/]+ is greedy: the first position at or after i that holds no
\* lowercase letter and no slash
PronounRun(s, i) ==
    IF i <= Len(s) /\ s[i] \in (Lower \cup {"/"}) THEN PronounRun(s, i + 1) ELSE i

\* RE_RC_PRONOUNS at position i: the position after the match, 0 for no match
MatchPronouns(s, i) ==
    IF i <= Len(s) /\ s[i] = "("
    THEN LET j == PronounRun(s, i + 1)
         IN  IF j > i + 1 /\ j <= Len(s) /\ s[j] = ")" THEN j + 1 ELSE 0
    ELSE 0

\* The alternation (W|SP|Sp|S|F|m), in the order the regex tries it
BatchSeasons == << <<"W">>, <<"S","P">>, <<"S","p">>, <<"S">>, <<"F">>, <<"m">> >>

\* '\d{2}\) at position i: the position after the match, 0 for no match
MatchBatchYear(s, i) ==
    IF /\ i + 3 <= Len(s)
       /\ s[i] = "'"
       /\ s[i + 1] \in Digit
       /\ s[i + 2] \in Digit
       /\ s[i + 3] = ")"
    THEN i + 4
    ELSE 0

\* \d'\d{2}\) at position i: the batch digit required instead of optional
MatchBatchTail_digit_required(s, i) ==
    IF i <= Len(s) /\ s[i] \in Digit THEN MatchBatchYear(s, i + 1) ELSE 0

\* \d?'\d{2}\) at position i: the optional digit is tried first
MatchBatchTail(s, i) ==
    IF i <= Len(s) /\ s[i] \in Digit /\ MatchBatchYear(s, i + 1) > 0
    THEN MatchBatchYear(s, i + 1)
    ELSE MatchBatchYear(s, i)

RECURSIVE MatchBatchFrom(_, _, _)
\* The alternatives from the k-th on, the first that lets the rest match
MatchBatchFrom(s, i, k) ==
    IF k > Len(BatchSeasons) THEN 0
    ELSE LET alt == BatchSeasons[k]
             e   == IF StartsWithAt(s, i, alt)
                    THEN MatchBatchTail(s, i + Len(alt))
                    ELSE 0
         IN  IF e > 0 THEN e ELSE MatchBatchFrom(s, i, k + 1)

\* RE_RC_BATCH at position i: the position after the match, 0 for no match
MatchBatch(s, i) ==
    IF i <= Len(s) /\ s[i] = "(" THEN MatchBatchFrom(s, i + 1, 1) ELSE 0

\* The regex of parse_zulip_username, .*?(pronouns)?(batch)?, matched at
\* position p: the position after the match.  The lazy .*? takes no
\* character, because both groups after it are optional and so the rest
\* matches at once; each group, being greedy, is taken when it matches.
MatchNonName(s, p) ==
    LET e1 == IF MatchPronouns(s, p) > 0 THEN MatchPronouns(s, p) ELSE p
        e2 == IF MatchBatch(s, e1) > 0 THEN MatchBatch(s, e1) ELSE e1
    IN  e2

RECURSIVE ReplaceAllNonName(_, _)
\* Regex::replace_all(name, ""): the matches are found from left to right,
\* none overlapping; an empty match removes nothing and the search goes on
\* one character further
ReplaceAllNonName(s, p) ==
    IF p > Len(s) THEN << >>
    ELSE LET e == MatchNonName(s, p)
         IN  IF e > p
             THEN ReplaceAllNonName(s, e)
             ELSE <<s[p]>> \o ReplaceAllNonName(s, p + 1)

\* Bot::parse_zulip_username: every match of the regex is replaced by the
\* empty string and the result is trimmed
parse_zulip_username(name) == Trim(ReplaceAllNonName(name, 1))

(***************************************************************************)
(* Time: an OffsetDateTime is a record of its calendar fields and offset   *)
(***************************************************************************)
DigitSeq == <<"0","1","2","3","4","5","6","7","8","9">>
DigitVal(c) == (CHOOSE k \in 1..10 : DigitSeq[k] = c) - 1
Num2(s, i) == 10 * DigitVal(s[i]) + DigitVal(s[i + 1])
Num4(s, i) == 100 * Num2(s, i) + Num2(s, i + 2)

IsLeapYear(y) == (y % 4 = 0 /\ y % 100 # 0) \/ y % 400 = 0

DaysInMonth(y, m) ==
    IF m = 2 THEN (IF IsLeapYear(y) THEN 29 ELSE 28)
    ELSE IF m \in {4, 6, 9, 11} THEN 30 ELSE 31

\* An OffsetDateTime at a whole second, as datetime! writes it
OffsetDateTime(y, mo, d, h, mi, sec, oh, om) ==
    [year |-> y, month |-> mo, day |-> d, hour |-> h, minute |-> mi,
     second |-> sec, nanosecond |-> 0, offset_hours |-> oh, offset_minutes |-> om]

RECURSIVE DigitRun(_, _)
\* The first position at or after i that holds no digit
DigitRun(s, i) == IF i <= Len(s) /\ s[i] \in Digit THEN DigitRun(s, i + 1) ELSE i

RECURSIVE Nanoseconds(_, _, _)
\* The value of the decimal digits s[i..j-1] of a second, in nanoseconds;
\* scale is the weight of the digit at i
Nanoseconds(s, i, scale) ==
    IF i > Len(s) \/ s[i] \notin Digit \/ scale = 0 THEN 0
    ELSE DigitVal(s[i]) * scale + Nanoseconds(s, i + 1, scale \div 10)

\* The characters of s from i on are all digits at the given offsets
DigitsAt(s, i, offsets) == \A k \in offsets : s[i + k] \in Digit

\* OffsetDateTime::parse(s, &Iso8601::DEFAULT) for the extended calendar
\* form YYYY-MM-DDThh:mm:ss, with or without decimal digits of the second,
\* followed by Z or +hh:mm or -hh:mm: the form dt.format(&Iso8601::DEFAULT)
\* writes and the form of the repository's tests.  A string that is empty,
\* a date alone, or has a field out of range is an Err (None here).
ParseIso8601(s) ==
    LET hasFraction == Len(s) >= 20 /\ s[20] \in {".", ","}
        fractionEnd == IF hasFraction THEN DigitRun(s, 21) ELSE 20
        offsetLen   == Len(s) - fractionEnd + 1
    IN  IF /\ Len(s) >= 20
           /\ DigitsAt(s, 1, {0, 1, 2, 3, 5, 6, 8, 9, 11, 12, 14, 15, 17, 18})
           /\ s[5] = "-" /\ s[8] = "-" /\ s[11] = "T" /\ s[14] = ":" /\ s[17] = ":"
           /\ hasFraction => fractionEnd > 21
           /\ offsetLen \in {1, 6}
           /\ IF offsetLen = 1
              THEN s[fractionEnd] = "Z"
              ELSE /\ s[fractionEnd] \in {"+", "-"}
                   /\ DigitsAt(s, fractionEnd + 1, {0, 1, 3, 4})
                   /\ s[fractionEnd + 3] = ":"
        THEN LET y   == Num4(s, 1)
                 mo  == Num2(s, 6)
                 d   == Num2(s, 9)
                 h   == Num2(s, 12)
                 mi  == Num2(s, 15)
                 sec == Num2(s, 18)
                 ns  == IF hasFraction THEN Nanoseconds(s, 21, 100000000) ELSE 0
                 sgn == IF offsetLen = 6 /\ s[fractionEnd] = "-" THEN -1 ELSE 1
                 oh  == IF offsetLen = 6 THEN sgn * Num2(s, fractionEnd + 1) ELSE 0
                 om  == IF offsetLen = 6 THEN sgn * Num2(s, fractionEnd + 4) ELSE 0
             IN  IF /\ mo \in 1..12
                    /\ d \in 1..DaysInMonth(y, mo)
                    /\ h < 24 /\ mi < 60 /\ sec < 60
                    /\ oh \in -23..23 /\ om \in -59..59
                 THEN << [OffsetDateTime(y, mo, d, h, mi, sec, oh, om)
                             EXCEPT !.nanosecond = ns] >>
                 ELSE << >>
        ELSE << >>

\* n written with two, four and nine decimal digits
Dec2(n) == << DigitSeq[((n \div 10) % 10) + 1], DigitSeq[(n % 10) + 1] >>
Dec4(n) == Dec2(n \div 100) \o Dec2(n % 100)
Dec9(n) == << DigitSeq[((n \div 100000000) % 10) + 1] >>
                \o Dec4((n \div 10000) % 10000) \o Dec4(n % 10000)

\* dt.format(&Iso8601::DEFAULT): calendar date and time with separators,
\* the second with nine decimal digits, the offset to the minute and
\* written Z when it is UTC.  None for a year outside 0..9999.
FormatIso8601(dt) ==
    IF dt.year \notin 0..9999 THEN << >>
    ELSE << Dec4(dt.year) \o <<"-">> \o Dec2(dt.month) \o <<"-">> \o Dec2(dt.day)
            \o <<"T">> \o Dec2(dt.hour) \o <<":">> \o Dec2(dt.minute)
            \o <<":">> \o Dec2(dt.second) \o <<".">> \o Dec9(dt.nanosecond)
            \o ( IF dt.offset_hours = 0 /\ dt.offset_minutes = 0
                 THEN <<"Z">>
                 ELSE << IF dt.offset_hours < 0 \/ dt.offset_minutes < 0 THEN "-" ELSE "+" >>
                      \o Dec2(IF dt.offset_hours < 0 THEN -dt.offset_hours ELSE dt.offset_hours)
                      \o <<":">>
                      \o Dec2(IF dt.offset_minutes < 0 THEN -dt.offset_minutes
                              ELSE dt.offset_minutes) ) >>

\* Status::DEFAULT_EXPIRES_AT, in seconds
DEFAULT_EXPIRES_AT == 1800
\* Date::MAX is the last day of this year
MAX_YEAR == 9999

\* OffsetDateTime::checked_add of a duration shorter than a day: None when
\* the result lies after Date::MAX
CheckedAdd(t, seconds) ==
    LET total   == t.hour * 3600 + t.minute * 60 + t.second + seconds
        carry   == total \div 86400
        rest    == total % 86400
        lastDay == t.day + carry > DaysInMonth(t.year, t.month)
        d       == IF lastDay THEN 1 ELSE t.day + carry
        mo      == IF lastDay THEN (IF t.month = 12 THEN 1 ELSE t.month + 1) ELSE t.month
        y       == IF lastDay /\ t.month = 12 THEN t.year + 1 ELSE t.year
    IN  IF y > MAX_YEAR
        THEN << >>
        ELSE << [OffsetDateTime(y, mo, d, rest \div 3600, (rest % 3600) \div 60,
                                rest % 60, t.offset_hours, t.offset_minutes)
                    EXCEPT !.nanosecond = t.nanosecond] >>

(***************************************************************************)
(* Status and the emoji tables                                             *)
(***************************************************************************)
\* impl From<StatusParts> for Status: a status text without an expiration
\* gets now + 30 minutes
StatusFrom(maybe_emoji, maybe_status, maybe_expires_at, t) ==
    [emoji |-> maybe_emoji,
     status |-> maybe_status,
     expires_at |-> IF maybe_status # << >> /\ maybe_expires_at = << >>
                    THEN CheckedAdd(t, DEFAULT_EXPIRES_AT)
                    ELSE maybe_expires_at]

\* Status::default()
StatusDefault == [emoji |-> << >>, status |-> << >>, expires_at |-> << >>]

RECURSIVE JoinSpace(_)
\* Vec::join(SPACE)
JoinSpace(ss) ==
    IF ss = << >> THEN << >>
    ELSE IF Len(ss) = 1 THEN ss[1]
    ELSE ss[1] \o <<" ">> \o JoinSpace(Tail(ss))

\* impl Display for Status with the status text first and the emoji second
Display_text_first(st) ==
    LET emoji      == IF st.emoji # << >> THEN st.emoji[1] ELSE << >>
        text       == IF st.status # << >> THEN st.status[1] ELSE << >>
        ts         == IF st.expires_at # << >> THEN FormatIso8601(st.expires_at[1]) ELSE << >>
        expires_at == IF ts # << >> THEN <<"<","t","i","m","e",":">> \o ts[1] \o <<">">>
                      ELSE << >>
    IN  Trim(JoinSpace(SelectSeq(<<text, emoji, expires_at>>, LAMBDA x : x # << >>)))

\* impl Display for Status: the parts that are not empty, joined by a space
Display(st) ==
    LET emoji      == IF st.emoji # << >> THEN st.emoji[1] ELSE << >>
        text       == IF st.status # << >> THEN st.status[1] ELSE << >>
        ts         == IF st.expires_at # << >> THEN FormatIso8601(st.expires_at[1]) ELSE << >>
        expires_at == IF ts # << >> THEN <<"<","t","i","m","e",":">> \o ts[1] \o <<">">>
                      ELSE << >>
    IN  Trim(JoinSpace(SelectSeq(<<emoji, text, expires_at>>, LAMBDA x : x # << >>)))

\* ZulipEmoji (zulip.json): Zulip alias -> standard aliases, comma separated.
\* tada lists a candidate emojic does not know before one it knows; zz
\* lists only an unknown one.
ZulipEmojis ==
    { << <<"a","p","p","l","e">>, <<"a","p","p","l","e">> >>,
      << <<"o","c","t","o","p","u","s">>, <<"o","c","t","o","p","u","s">> >>,
      << <<"t","a","d","a">>, <<"h","o","o","r","a","y",",","t","a","d","a">> >>,
      << <<"z","z">>, <<"n","o","t","h","i","n","g">> >> }

\* emojic::parse_alias: standard alias -> grapheme, a grapheme written as
\* one character named by its code point
EmojicAliases ==
    { << <<"a","p","p","l","e">>, <<"U+1F34E">> >>,
      << <<"o","c","t","o","p","u","s">>, <<"U+1F419">> >>,
      << <<"t","a","d","a">>, <<"U+1F389">> >> }

\* HashMap::get on a set of (key, value) pairs
MapGet(map, key) ==
    IF \E kv \in map : kv[1] = key
    THEN << (CHOOSE kv \in map : kv[1] = key)[2] >>
    ELSE << >>

\* HashMap::insert
MapInsert(map, key, value) == { kv \in map : kv[1] # key } \cup { <<key, value>> }

\* HashMap::remove
MapRemove(map, key) == { kv \in map : kv[1] # key }

RECURSIVE SplitOn(_, _)
\* str::split(sep) for a one-character separator
SplitOn(s, sep) ==
    IF \E i \in 1..Len(s) : s[i] = sep
    THEN LET i == CHOOSE k \in 1..Len(s) : s[k] = sep /\ \A l \in 1..(k - 1) : s[l] # sep
         IN  <<SubSeq(s, 1, i - 1)>> \o SplitOn(SubSeq(s, i + 1, Len(s)), sep)
    ELSE <<s>>

RECURSIVE FirstGrapheme(_)
\* The loop of parse_emoji: the first candidate emojic knows wins
FirstGrapheme(aliases) ==
    IF aliases = << >> THEN << >>
    ELSE IF MapGet(EmojicAliases, Head(aliases)) # << >>
         THEN MapGet(EmojicAliases, Head(aliases))
         ELSE FirstGrapheme(Tail(aliases))

\* Bot::parse_emoji
parse_emoji(maybe_alias) ==
    LET aliases == MapGet(ZulipEmojis, maybe_alias)
    IN  IF aliases = << >> THEN << >> ELSE FirstGrapheme(SplitOn(aliases[1], ","))

(***************************************************************************)
(* The status sub-parser                                                   *)
(***************************************************************************)
\* The least element of a non-empty set of numbers
Min(S) == CHOOSE x \in S : \A y \in S : x <= y

\* `.` matches every character but the line feed
NoLineFeed(s, from, to) == \A k \in from..to : s[k] # "\n"

\* RE_EMOJI with an alias that may be empty, (:(?<emoji>.*?):)?
MatchEmoji_empty_alias(s, p) ==
    LET ends == { j \in (p + 1)..Len(s) : s[j] = ":" /\ NoLineFeed(s, p + 1, j - 1) }
    IN  IF p <= Len(s) /\ s[p] = ":" /\ ends # {}
        THEN [end |-> Min(ends) + 1, cap |-> << SubSeq(s, p + 1, Min(ends) - 1) >>]
        ELSE [end |-> p, cap |-> << >>]

\* RE_EMOJI at position p: (:(?<emoji>.+?):)? -- the lazy .+? stops at the
\* first colon that leaves it at least one character; end is the position
\* after the group, cap the capture
MatchEmoji(s, p) ==
    LET ends == { j \in (p + 2)..Len(s) : s[j] = ":" /\ NoLineFeed(s, p + 1, j - 1) }
    IN  IF p <= Len(s) /\ s[p] = ":" /\ ends # {}
        THEN [end |-> Min(ends) + 1, cap |-> << SubSeq(s, p + 1, Min(ends) - 1) >>]
        ELSE [end |-> p, cap |-> << >>]

\* \s? at position p
MatchOptSpace(s, p) ==
    IF p <= Len(s) /\ s[p] \in WhiteSpace THEN p + 1 ELSE p

\* RE_STATUS without the tab in its class, [^<>\r\n]+
StatusStop_without_tab == {"<", ">", "\r", "\n"}

\* The characters RE_STATUS excludes
StatusStop == {"<", ">", "\r", "\n", "\t"}

RECURSIVE StatusRun(_, _)
\* [^<>\r\n\t]+ is greedy: the first position at or after p it cannot take
StatusRun(s, p) ==
    IF p <= Len(s) /\ s[p] \notin StatusStop THEN StatusRun(s, p + 1) ELSE p

\* RE_STATUS at position p
MatchStatus(s, p) ==
    LET e == StatusRun(s, p)
    IN  IF e > p
        THEN [end |-> e, cap |-> << SubSeq(s, p, e - 1) >>]
        ELSE [end |-> p, cap |-> << >>]

TimeOpen == <<"<","t","i","m","e",":">>

\* RE_TIME at position p: (<time:(?<iso8061>.+?)>)?
MatchTime(s, p) ==
    LET from == p + Len(TimeOpen)
        ends == { j \in (from + 1)..Len(s) : s[j] = ">" /\ NoLineFeed(s, from, j - 1) }
    IN  IF StartsWithAt(s, p, TimeOpen) /\ ends # {}
        THEN [end |-> Min(ends) + 1, cap |-> << SubSeq(s, from, Min(ends) - 1) >>]
        ELSE [end |-> p, cap |-> << >>]

\* The captures with the emoji group looked for at every position, not at
\* the first character alone: what comes before an alias is skipped
StatusCaptures_emoji_anywhere(s) ==
    LET starts == { q \in 1..Len(s) : MatchEmoji(s, q).cap # << >> }
        e == IF starts = {} THEN MatchEmoji(s, 1) ELSE MatchEmoji(s, Min(starts))
        t == MatchStatus(s, MatchOptSpace(s, e.end))
        x == MatchTime(s, MatchOptSpace(s, t.end))
    IN  [emoji |-> e.cap, status |-> t.cap, iso8061 |-> x.cap]

\* Regex::captures of RE_EMOJI \s? RE_STATUS \s? RE_TIME: every part is
\* optional, so the leftmost match starts at the first character and no
\* part ever gives back what it took
StatusCaptures(s) ==
    LET e == MatchEmoji(s, 1)
        t == MatchStatus(s, MatchOptSpace(s, e.end))
        x == MatchTime(s, MatchOptSpace(s, t.end))
    IN  [emoji |-> e.cap, status |-> t.cap, iso8061 |-> x.cap]

\* Bot::parse_status
parse_status(s, t) ==
    LET caps == StatusCaptures(s)
        maybe_emoji ==
            IF caps.emoji # << >> THEN parse_emoji(Trim(caps.emoji[1])) ELSE << >>
        maybe_status ==
            IF caps.status # << >> /\ Len(Trim(caps.status[1])) > 0
            THEN << Trim(caps.status[1]) >>
            ELSE << >>
        maybe_expires_at ==
            IF caps.iso8061 # << >> THEN ParseIso8601(Trim(caps.iso8061[1])) ELSE << >>
    IN  StatusFrom(maybe_emoji, maybe_status, maybe_expires_at, t)

(***************************************************************************)
(* The command parser                                                      *)
(***************************************************************************)
RECURSIVE TokenEnd(_, _)
\* The first position at or after i that holds whitespace
TokenEnd(s, i) ==
    IF i <= Len(s) /\ s[i] \notin WhiteSpace THEN TokenEnd(s, i + 1) ELSE i

RECURSIVE SplitWhitespace(_)
\* str::split_whitespace
SplitWhitespace(s) ==
    LET t == TrimStart(s)
    IN  IF t = << >> THEN << >>
        ELSE <<SubSeq(t, 1, TokenEnd(t, 1) - 1)>>
                \o SplitWhitespace(SubSeq(t, TokenEnd(t, 1), Len(t)))

RECURSIVE FoldPush(_)
\* The fold of fold_splits: every token followed by one space
FoldPush(splits) ==
    IF splits = << >> THEN << >> ELSE Head(splits) \o <<" ">> \o FoldPush(Tail(splits))

\* Bot::fold_splits
fold_splits(splits) == TrimEnd(FoldPush(splits))

Command(kind, arg, st) == [kind |-> kind, arg |-> arg, status |-> st]

\* The arms for `clear` and `feedback` taken out of their comments
AnyOtherWord_with_clear_and_feedback(first, rest) ==
    IF first = <<"c","l","e","a","r">> THEN Command("Clear", << >>, << >>)
    ELSE IF first = <<"f","e","e","d","b","a","c","k">> /\ rest # << >>
    THEN Command("Feedback", fold_splits(rest), << >>)
    ELSE Command("Help", << >>, << >>)

\* The arm `_ => Command::Help` of parse_cmd: any other first word, `clear`
\* and `feedback` among them, whose arms are commented out
AnyOtherWord(first, rest) == Command("Help", << >>, << >>)

\* The match arm `first == keyword` with the case of the letters ignored
KeywordIs_ignoring_case(first, keyword) ==
    LET lower(c) == IF c = "S" THEN "s" ELSE IF c = "H" THEN "h" ELSE c
    IN  [k \in 1..Len(first) |-> lower(first[k])] = keyword

\* The match arm `first == keyword`: exact comparison
KeywordIs(first, keyword) == first = keyword

\* Bot::parse_cmd
parse_cmd(msg, t) ==
    LET splits == SplitWhitespace(msg)
        first  == Head(splits)
        rest   == Tail(splits)
    IN  IF splits = << >> THEN Command("Help", << >>, << >>)
        ELSE IF KeywordIs(first, <<"h","e","l","p">>) THEN Command("Help", << >>, << >>)
        ELSE IF KeywordIs(first, <<"s","h","o","w">>) THEN Command("Show", << >>, << >>)
        ELSE IF KeywordIs(first, <<"s","t","a","t","u","s">>)
             THEN IF rest # << >>
                  THEN Command("Status", << >>, << parse_status(fold_splits(rest), t) >>)
                  ELSE Command("Help", << >>, << >>)
        ELSE IF KeywordIs(first, <<"s","e","t","_","n","a","m","e">>)
             THEN Command("SetName", fold_splits(rest), << >>)
        ELSE IF KeywordIs(first, <<"c","l","e","a","r","_","n","a","m","e">>)
             THEN Command("ClearName", << >>, << >>)
        ELSE IF KeywordIs(first, <<"t","e","s","t","_","m","i","s","s","i","n","g","_","d","e","s","k">>)
             THEN Command("TestMissingDesk", << >>, << >>)
        ELSE IF KeywordIs(first, <<"t","e","s","t","_","l","o","o","k","u","p","_","d","e","s","k">>)
             THEN Command("TestLookupDesk", fold_splits(rest), << >>)
        ELSE IF KeywordIs(first, <<"t","e","s","t","_","s","e","n","d","_","h","o","m","e">>)
             THEN Command("TestSendHome", << >>, << >>)
        ELSE AnyOtherWord(first, rest)

(***************************************************************************)
(* The grid and the positions around a desk                                *)
(***************************************************************************)
GRID_X_MAX == 169
GRID_X_MIN == 0
GRID_Y_MAX == 109
GRID_Y_MIN == 0

\* Stands for usize::MAX: the largest number TLC represents.  Only its
\* being larger than the grid's bounds is used.
USIZE_MAX == 2147483647

Position(x, y) == [x |-> x, y |-> y]

\* Ord::clamp
Clamp(v, lo, hi) == IF v < lo THEN lo ELSE IF v > hi THEN hi ELSE v

\* v - 1 on usize without overflow checks: it wraps around
WrappingDec(v) == IF v = 0 THEN USIZE_MAX ELSE v - 1

\* v + 1 on usize without overflow checks
WrappingInc(v) == IF v = USIZE_MAX THEN 0 ELSE v + 1

\* RecurseClient::surrounding_positions.  `pos.x - 1` and `pos.y - 1` are
\* usize subtractions: with overflow checks (the debug profile) they panic
\* at 0, without them (the release profile) they wrap to usize::MAX, which
\* clamp then brings to the grid's maximum.
surrounding_positions(pos, checks) ==
    IF checks /\ (pos.x = 0 \/ pos.y = 0 \/ pos.x = USIZE_MAX \/ pos.y = USIZE_MAX)
    THEN [panicked |-> TRUE, list |-> << >>]
    ELSE LET xm == Clamp(WrappingDec(pos.x), GRID_X_MIN, GRID_X_MAX)
             xp == Clamp(WrappingInc(pos.x), GRID_X_MIN, GRID_X_MAX)
             ym == Clamp(WrappingDec(pos.y), GRID_Y_MIN, GRID_Y_MAX)
             yp == Clamp(WrappingInc(pos.y), GRID_Y_MIN, GRID_Y_MAX)
             top          == Position(pos.x, ym)
             top_left     == Position(xm, ym)
             top_right    == Position(xp, ym)
             left         == Position(xm, pos.y)
             right        == Position(xp, pos.y)
             bottom       == Position(pos.x, yp)
             bottom_left  == Position(xm, yp)
             bottom_right == Position(xp, yp)
         IN  [panicked |-> FALSE,
              list |-> <<left, right, top, top_left, top_right,
                         bottom, bottom_left, bottom_right>>]

(***************************************************************************)
(* The requests of update_desk and what the platform answers               *)
(***************************************************************************)
\* What can become of PATCH /api/bots/:id: 200 with a body that
\* deserializes, 200 with one that does not, 422, another status, no answer
UpdateBotOutcomes ==
    {"ok", "ok_unreadable", "unprocessable_entity", "other_status", "network_error"}

\* The platform answered the relocation with 200: the avatar has moved
StatusOk(outcome) == outcome \in {"ok", "ok_unreadable"}

\* RecurseClient::update_bot returns Ok: a 200 whose body reads as a bot
update_bot(outcome) == outcome = "ok"

\* What can become of PATCH /api/desks/:id
UpdateDeskOutcomes ==
    {"ok", "ok_unreadable", "unprocessable_entity", "bad_request",
     "internal_server_error", "other_status", "network_error"}

\* A Result of update_desk; only the no-open-position error names the desk
DeskResult(kind, named) == [kind |-> kind, named |-> named]

\* The value update_desk returns for an answer to PATCH /api/desks/:id
update_desk_result(outcome) ==
    IF outcome = "ok" THEN DeskResult("Ok", << >>)
    ELSE IF outcome = "ok_unreadable" THEN DeskResult("ErrDeserialize", << >>)
    ELSE IF outcome = "unprocessable_entity" THEN DeskResult("ErrInvalidJson", << >>)
    ELSE IF outcome = "bad_request" THEN DeskResult("ErrInvalidRequest", << >>)
    ELSE IF outcome = "internal_server_error" THEN DeskResult("ErrFellOver", << >>)
    ELSE IF outcome = "other_status" THEN DeskResult("ErrUnknownStatus", << >>)
    ELSE DeskResult("ErrNetwork", << >>)

\* "Bot was unable to find an open grid position next to desk (id, pos)"
NoOpenPosition(id, pos) == DeskResult("ErrNoOpenPosition", << <<id, pos>> >>)

\* A relocation request: where to, what the platform did with it ("pending",
\* "accepted", "rejected") and whether update_bot returned Ok
BotRequest(pos, answer, ok) == [pos |-> pos, answer |-> answer, ok |-> ok]

(***************************************************************************)
(* The directory, the corrections and the replies                          *)
(***************************************************************************)
\* A Desk of the platform as far as the bot reads it; owner is an Option
Desk(id, owner, pos) == [id |-> id, owner |-> owner, pos |-> pos]

RECURSIVE FoldOwners(_, _)
\* The fold of cache_desk_owners over the desks that have an owner: a later
\* desk of the same owner replaces the earlier one
FoldOwners(map, desks) ==
    IF desks = << >> THEN map
    ELSE LET desk == Head(desks)
         IN  FoldOwners(IF desk.owner # << >>
                        THEN MapInsert(map, desk.owner[1], <<desk.id, desk.pos>>)
                        ELSE map,
                        Tail(desks))

\* Desks without an owner are inserted under the empty name
OwnerMap_keeps_ownerless(desks) ==
    FoldOwners({}, [k \in 1..Len(desks) |->
                      IF desks[k].owner = << >>
                      THEN [desks[k] EXCEPT !.owner = << << >> >>]
                      ELSE desks[k]])

\* The map x that cache_desk_owners builds from the answer of get_desks
OwnerMap(desks) == FoldOwners({}, desks)

\* Bot::lookup_corrected_name; try_read fails while the lock is write-held
lookup_corrected_name(name, corrections, write_held) ==
    IF write_held THEN name
    ELSE LET found == MapGet(corrections, name)
         IN  IF found # << >> THEN found[1] ELSE name

\* Bot::lookup_desk_id; try_read fails while the lock is write-held
lookup_desk_id(name, corrections, owners, corrections_held, owners_held) ==
    LET parsed    == parse_zulip_username(name)
        corrected == lookup_corrected_name(parsed, corrections, corrections_held)
    IN  IF owners_held THEN << >> ELSE MapGet(owners, corrected)

\* A Reply: `response_not_required`, or content of one of the texts
Reply(kind, arg) == [kind |-> kind, arg |-> arg]

\* An OutgoingWebhook as far as respond reads it
Webhook(trigger, sender, data, token) ==
    [trigger |-> trigger, sender |-> sender, data |-> data, token |-> token]

\* A webhook is answered `response_not_required` when it is a mention and
\* its token is the bot's
IsMention_valid_token(w) == w.trigger = "mention" /\ w.token = "api_token"

\* `webhook.trigger == Trigger::Mention`
IsMention(w) == w.trigger = "mention"

\* The webhooks being handled: hyper serves every connection in a task of
\* its own, and the runtime has several worker threads
Handlers == {"h1", "h2"}

\* What becomes of GET /api/desks in get_desk: no answer, a body that does
\* not deserialize, desks without the one asked for, the desk without
\* emoji, text and expiration, the desk with a status
GetDeskOutcomes ==
    {"network_error", "unreadable", "missing", "empty_status", "status"}

\* Bot::cmd_show for an answer to get_desk: always Ok(Reply::Content)
cmd_show(outcome) ==
    IF outcome = "status" THEN Reply("ShowStatus", << >>)
    ELSE IF outcome = "empty_status" THEN Reply("EmptyStatus", << >>)
    ELSE Reply("Error", <<outcome>>)

\* Bot::cmd_status for what update_desk returned: Ok(Reply) or Err(e)
cmd_status(result) ==
    IF result.kind = "Ok"
    THEN [ok |-> TRUE, reply |-> Reply("UpdatedStatus", << >>)]
    ELSE [ok |-> FALSE, reply |-> Reply("Failed", <<result.kind>> \o result.named)]

\* Bot::_cmd_test_send_home: always Ok(Reply::Content)
cmd_test_send_home(outcome) ==
    IF update_bot(outcome) THEN Reply("SentHome", << >>)
    ELSE Reply("FailedToSendHome", <<outcome>>)

\* The requests respond sends to move the avatar home after run_command
\* returned: two after an Ok
send_bot_home_twice(ok) == IF ok THEN 2 ELSE 0

\* The requests respond sends to move the avatar home after run_command
\* returned: one after an Ok, none after an Err
send_bot_home(ok) == IF ok THEN 1 ELSE 0

(***************************************************************************)
(* Each specification below exercises one part of the program; the         *)
(* variables of the other parts stay at these values.                      *)
(***************************************************************************)
NameIdle ==
    /\ zulip_username = << >>
    /\ replaced_name = << >>
    /\ replaced_twice = << >>
    /\ name_pc = "idle"

ParseIdle ==
    /\ message = << >>
    /\ command = << >>
    /\ input = << >>
    /\ status = << >>
    /\ now = OffsetDateTime(1970, 1, 1, 0, 0, 0, 0, 0)
    /\ parse_pc = "idle"
    /\ parts = << >>
    /\ display = << >>
    /\ reparsed = << >>

DeskIdle ==
    /\ desk_id = 0
    /\ desk_pos = Position(0, 0)
    /\ overflow_checks = FALSE
    /\ positions = << >>
    /\ bot_requests = << >>
    /\ desk_requests = 0
    /\ update_result = << >>
    /\ desk_pc = "idle"

BotIdle ==
    /\ desk_owners = {}
    /\ corrected_names = {}
    /\ refresh_pc = "idle"
    /\ fetched = << >>
    /\ last_fetch = << >>
    /\ refresh_result = << >>
    /\ webhook = [h \in Handlers |-> << >>]
    /\ entry = [h \in Handlers |-> << >>]
    /\ home_requests = [h \in Handlers |-> 0]
    /\ home_result = [h \in Handlers |-> << >>]
    /\ reply = [h \in Handlers |-> << >>]
    /\ respond_pc = [h \in Handlers |-> "idle"]
    /\ looked_up = [h \in Handlers |-> << >>]
    /\ handler_command = [h \in Handlers |-> << >>]

(***************************************************************************)
(* The normaliser's specification: a display name is drawn, normalised,    *)
(* and the result normalised again.                                        *)
(***************************************************************************)
\* The display names are the concatenations of at most this many fragments
MaxNameFragments == 3

PronounFragments ==
    { <<" ","(","h","e",")">>,
      <<" ","(","h","e","/","h","i","m",")">> }

BatchFragments ==
    { <<" ","(","W","1","'","1","9",")">>,
      <<" ","(","m","'","2","0",")">>,
      <<" ","(","S","p","1","'","2","0",")">>,
      <<" ","(","S","P","'","2","0",")">>,
      <<" ","(","F","2","'","2","3",")">>,
      <<" ","(","S","2","'","1","6",")">> }

\* Name text, with parentheticals that are neither pronouns nor a batch
PlainFragments ==
    { <<"J">>,
      <<" ">>,
      <<"J"," ","(","J","a","k","e",")"," ","Y">>,
      <<" ","(","Y","o",")">>,
      <<" ","(","X","1","'","1","9",")">>,
      <<" ","a">> }

\* Pieces that nest or abut parentheticals
OddFragments ==
    { <<"(","a">>, <<"(","h","e",")">>, <<")">> }

NameFragments ==
    PronounFragments \cup BatchFragments \cup PlainFragments \cup OddFragments

NameInputs ==
    { Concat(fs) : fs \in UNION { [1..n -> NameFragments] : n \in 0..MaxNameFragments } }

InitName ==
    /\ zulip_username \in NameInputs
    /\ replaced_name = << >>
    /\ replaced_twice = << >>
    /\ name_pc = "input"
    /\ ParseIdle
    /\ DeskIdle
    /\ BotIdle

\* parse_zulip_username(zulip_username)
Normalize ==
    /\ name_pc = "input"
    /\ replaced_name' = parse_zulip_username(zulip_username)
    /\ name_pc' = "once"
    /\ UNCHANGED <<zulip_username, replaced_twice, parseVars, deskVars, botVars>>

\* parse_zulip_username applied to its own result
NormalizeAgain ==
    /\ name_pc = "once"
    /\ replaced_twice' = parse_zulip_username(replaced_name)
    /\ name_pc' = "twice"
    /\ UNCHANGED <<zulip_username, replaced_name, parseVars, deskVars, botVars>>

NextName ==
    \/ Normalize
    \/ NormalizeAgain

SpecName == InitName /\ [][NextName]_vars

(***************************************************************************)
(* The parser's specifications: a line is drawn and parsed                 *)
(***************************************************************************)
\* The lines are the concatenations of at most this many fragments
MaxCmdFragments == 3
MaxStatusFragments == 3

\* The first tokens parse_cmd knows, the two it no longer does (clear,
\* feedback), one in another case and one unknown word
KeywordFragments ==
    { <<"h","e","l","p">>,
      <<"s","h","o","w">>,
      <<"c","l","e","a","r">>,
      <<"f","e","e","d","b","a","c","k">>,
      <<"s","t","a","t","u","s">>,
      <<"s","e","t","_","n","a","m","e">>,
      <<"c","l","e","a","r","_","n","a","m","e">>,
      <<"t","e","s","t","_","m","i","s","s","i","n","g","_","d","e","s","k">>,
      <<"t","e","s","t","_","l","o","o","k","u","p","_","d","e","s","k">>,
      <<"t","e","s","t","_","s","e","n","d","_","h","o","m","e">>,
      <<"S","t","a","t","u","s">>,
      <<"x">> }

T1 == <<"2","0","2","5","-","0","1","-","0","1","T","1","3",":","0","0",":","0","0","-","0","4",":","0","0">>
T2 == <<"2","0","2","3","-","1","1","-","2","9","T","2","0",":","0","0",":","0","0","Z">>

CmdFragments ==
    KeywordFragments \cup
    { <<" ">>, <<"\t">>,
      <<" ",":","a","p","p","l","e",":">>,
      <<" ","h","i">>,
      <<" ">> \o TimeOpen \o T1 \o <<">">> }

StatusFragments ==
    { <<":","a","p","p","l","e",":">>,
      <<":","t","a","d","a",":">>,
      <<":","s","a","d","p","a","r","r","o","t",":">>,
      <<":","z","z",":">>,
      <<":",":">>,
      <<":">>,
      <<" ","h","i">>,
      <<"a","p","p","l","e">>,
      <<" ">>,
      <<"\t">>,
      <<" ">> \o TimeOpen \o T1 \o <<">">>,
      TimeOpen \o T2 \o <<">">>,
      TimeOpen \o <<">">>,
      TimeOpen \o SubSeq(T2, 1, 10) \o <<">">>,
      <<"<",">">>,
      <<"<">>,
      <<">">> }

CmdInputs ==
    { Concat(fs) : fs \in UNION { [1..n -> CmdFragments] : n \in 0..MaxCmdFragments } }

StatusInputs ==
    { Concat(fs) : fs \in UNION { [1..n -> StatusFragments] : n \in 0..MaxStatusFragments } }

\* The clock at the call: at noon, and a quarter of an hour before the year ends
NowValues ==
    { OffsetDateTime(2025, 1, 1, 12, 0, 0, 0, 0),
      OffsetDateTime(2025, 12, 31, 23, 45, 0, 0, 0) }

InitCmd ==
    /\ message \in CmdInputs
    /\ command = << >>
    /\ input = << >>
    /\ status = << >>
    /\ now \in NowValues
    /\ parse_pc = "cmd"
    /\ parts = << >>
    /\ display = << >>
    /\ reparsed = << >>
    /\ NameIdle
    /\ DeskIdle
    /\ BotIdle

\* parse_cmd(message)
ParseCmd ==
    /\ parse_pc = "cmd"
    /\ command' = << parse_cmd(message, now) >>
    /\ parse_pc' = "done"
    /\ UNCHANGED <<message, input, status, now, parts, display, reparsed, nameVars, deskVars, botVars>>

NextCmd == ParseCmd

SpecCmd == InitCmd /\ [][NextCmd]_vars

InitStatus ==
    /\ message = << >>
    /\ command = << >>
    /\ input \in StatusInputs
    /\ status = << >>
    /\ now \in NowValues
    /\ parse_pc = "status"
    /\ parts = << >>
    /\ display = << >>
    /\ reparsed = << >>
    /\ NameIdle
    /\ DeskIdle
    /\ BotIdle

\* parse_status(input)
ParseStatus ==
    /\ parse_pc = "status"
    /\ status' = << parse_status(input, now) >>
    /\ parse_pc' = "done"
    /\ UNCHANGED <<message, command, input, now, parts, display, reparsed, nameVars, deskVars, botVars>>

NextStatus == ParseStatus

SpecStatus == InitStatus /\ [][NextStatus]_vars

\* A line for parse_cmd or an input for parse_status is drawn and parsed
InitParse == InitCmd \/ InitStatus

NextParse ==
    \/ ParseCmd
    \/ ParseStatus

SpecParse == InitParse /\ [][NextParse]_vars

(***************************************************************************)
(* The rendering's specification: a Status is drawn, either as the parts   *)
(* Status::from builds it from or as the struct itself, rendered with      *)
(* Display, and the rendering is parsed again                              *)
(***************************************************************************)
\* The graphemes of the emoji table and one that is not in it
PartEmojis == { << >>, << <<"U+1F34E">> >>, << <<"U+1F389">> >>, << <<"U+1F99C">> >> }

\* Texts as parse_status leaves them, one that reads as an alias, and one
\* with a space at its start
PartTexts ==
    { << >>,
      << <<"h","i">> >>,
      << <<"h","i"," ","h","i">> >>,
      << <<":","a","p","p","l","e",":">> >>,
      << <<" ","h","i">> >>,
      << <<"a","<","b">> >> }

PartTimes ==
    { << >>,
      << OffsetDateTime(2023, 11, 15, 14, 0, 0, -5, 0) >>,
      << OffsetDateTime(2023, 11, 29, 20, 0, 0, 0, 0) >>,
      << [OffsetDateTime(2025, 6, 30, 23, 59, 59, 5, 30) EXCEPT !.nanosecond = 120000000] >> }

StatusPartsSet == PartEmojis \X PartTexts \X PartTimes

InitDisplay ==
    /\ message = << >>
    /\ command = << >>
    /\ input = << >>
    /\ now \in NowValues
    /\ display = << >>
    /\ reparsed = << >>
    /\ \/ /\ parts \in { << p >> : p \in StatusPartsSet }
          /\ status = << >>
          /\ parse_pc = "parts"
       \/ /\ parts = << >>
          /\ status \in { << [emoji |-> p[1], status |-> p[2], expires_at |-> p[3]] >> :
                            p \in StatusPartsSet }
          /\ parse_pc = "built"
    /\ NameIdle
    /\ DeskIdle
    /\ BotIdle

\* Status::from(parts)
BuildStatus ==
    /\ parse_pc = "parts"
    /\ status' = << StatusFrom(parts[1][1], parts[1][2], parts[1][3], now) >>
    /\ parse_pc' = "built"
    /\ UNCHANGED <<message, command, input, now, parts, display, reparsed,
                   nameVars, deskVars, botVars>>

\* format!("{status}")
Render ==
    /\ parse_pc = "built"
    /\ display' = << Display(status[1]) >>
    /\ parse_pc' = "rendered"
    /\ UNCHANGED <<message, command, input, status, now, parts, reparsed,
                   nameVars, deskVars, botVars>>

\* parse_status of the rendering
Reparse ==
    /\ parse_pc = "rendered"
    /\ reparsed' = << parse_status(display[1], now) >>
    /\ parse_pc' = "reparsed"
    /\ UNCHANGED <<message, command, input, status, now, parts, display,
                   nameVars, deskVars, botVars>>

NextDisplay ==
    \/ BuildStatus
    \/ Render
    \/ Reparse

SpecDisplay == InitDisplay /\ [][NextDisplay]_vars

(***************************************************************************)
(* The placement's specification: a desk position in the grid is drawn     *)
(* and its surrounding positions computed                                  *)
(***************************************************************************)
GridPositions ==
    { Position(x, y) : x \in GRID_X_MIN..GRID_X_MAX, y \in GRID_Y_MIN..GRID_Y_MAX }

InitGrid ==
    /\ desk_id = 0
    /\ desk_pos \in GridPositions
    /\ overflow_checks \in BOOLEAN
    /\ positions = << >>
    /\ bot_requests = << >>
    /\ desk_requests = 0
    /\ update_result = << >>
    /\ desk_pc = "positions"
    /\ NameIdle
    /\ ParseIdle
    /\ BotIdle

\* surrounding_positions(desk_pos)
SurroundingPositions ==
    /\ desk_pc = "positions"
    /\ positions' = << surrounding_positions(desk_pos, overflow_checks) >>
    /\ desk_pc' = "positions_done"
    /\ UNCHANGED <<desk_id, desk_pos, overflow_checks, bot_requests, desk_requests,
                   update_result, nameVars, parseVars, botVars>>

NextGrid == SurroundingPositions

SpecGrid == InitGrid /\ [][NextGrid]_vars

(***************************************************************************)
(* update_desk's specification: a call for a desk, the platform answering  *)
(* each request in any of the ways it can                                  *)
(***************************************************************************)
\* The desks have the ids 1..MaxDeskId
MaxDeskId == 2

\* Desks inside the grid, on its edges and in its corners
DeskPositions ==
    { Position(0, 0), Position(0, 7), Position(5, 0), Position(5, 5),
      Position(GRID_X_MAX, 5), Position(GRID_X_MAX, GRID_Y_MAX) }

InitDesk ==
    /\ desk_id \in 1..MaxDeskId
    /\ desk_pos \in DeskPositions
    /\ overflow_checks \in BOOLEAN
    /\ positions = << >>
    /\ bot_requests = << >>
    /\ desk_requests = 0
    /\ update_result = << >>
    /\ desk_pc = "start"
    /\ NameIdle
    /\ ParseIdle
    /\ BotIdle

\* update_desk up to its first await: the surrounding positions are
\* computed and the first relocation request is sent
UpdateDeskCall ==
    /\ desk_pc = "start"
    /\ LET sp == surrounding_positions(desk_pos, overflow_checks)
       IN  /\ positions' = << sp >>
           /\ IF sp.panicked
              THEN /\ update_result' = << DeskResult("Panic", << >>) >>
                   /\ desk_pc' = "returned"
                   /\ UNCHANGED bot_requests
              ELSE /\ bot_requests' = << BotRequest(sp.list[1], "pending", FALSE) >>
                   /\ desk_pc' = "relocating"
                   /\ UNCHANGED update_result
    /\ UNCHANGED <<desk_id, desk_pos, overflow_checks, desk_requests, nameVars, parseVars, botVars>>

\* The answer to the relocation request in flight: on Ok the desk update is
\* sent; otherwise the next candidate is tried, and after the last one the
\* call fails
UpdateBotAnswer ==
    /\ desk_pc = "relocating"
    /\ \E outcome \in UpdateBotOutcomes :
        LET n    == Len(bot_requests)
            seen == [bot_requests EXCEPT
                        ![n].answer = IF StatusOk(outcome) THEN "accepted" ELSE "rejected",
                        ![n].ok = update_bot(outcome)]
        IN  IF update_bot(outcome)
            THEN /\ bot_requests' = seen
                 /\ desk_requests' = desk_requests + 1
                 /\ desk_pc' = "updating"
                 /\ UNCHANGED update_result
            ELSE IF n < Len(positions[1].list)
            THEN /\ bot_requests' =
                        Append(seen, BotRequest(positions[1].list[n + 1], "pending", FALSE))
                 /\ UNCHANGED <<desk_requests, update_result, desk_pc>>
            ELSE /\ bot_requests' = seen
                 /\ update_result' = << NoOpenPosition(desk_id, desk_pos) >>
                 /\ desk_pc' = "returned"
                 /\ UNCHANGED desk_requests
    /\ UNCHANGED <<desk_id, desk_pos, overflow_checks, positions, nameVars, parseVars, botVars>>

\* The answer to the desk update: every arm of the match returns
UpdateDeskAnswer ==
    /\ desk_pc = "updating"
    /\ \E outcome \in UpdateDeskOutcomes :
        update_result' = << update_desk_result(outcome) >>
    /\ desk_pc' = "returned"
    /\ UNCHANGED <<desk_id, desk_pos, overflow_checks, positions, bot_requests,
                   desk_requests, nameVars, parseVars, botVars>>

NextDesk ==
    \/ UpdateDeskCall
    \/ UpdateBotAnswer
    \/ UpdateDeskAnswer

SpecDesk == InitDesk /\ [][NextDesk]_vars

(***************************************************************************)
(* The bot: the background task refreshes the directory while webhooks are *)
(* handled.  A step of a handler runs to its next await or to the next     *)
(* lock it takes for writing; a guard taken for reading is dropped within  *)
(* the step that took it.                                                  *)
(***************************************************************************)
\* get_desks answers with at most this many desks
MaxDesks == 2

NameJ == <<"J">>
NameJy == <<"j","y">>

\* Two desks of one owner, one of another, one without an owner
Desks ==
    { Desk(1, <<NameJ>>, Position(5, 5)),
      Desk(2, <<NameJy>>, Position(0, 7)),
      Desk(3, << >>, Position(5, 0)),
      Desk(4, <<NameJ>>, Position(9, 9)) }

\* The answers of get_desks: no desk twice
DeskLists ==
    { ds \in UNION { [1..n -> Desks] : n \in 0..MaxDesks } :
        \A j, k \in 1..Len(ds) : j # k => ds[j] # ds[k] }

\* The display names of the senders: bare, with pronouns, and one that
\* owns no desk
Senders ==
    { NameJ,
      NameJ \o <<" ","(","h","e",")">>,
      <<"K">> }

Lines ==
    { <<"h","e","l","p">>,
      <<"s","e","t","_","n","a","m","e"," ">> \o NameJy,
      <<"s","e","t","_","n","a","m","e"," ">> \o NameJ,
      <<"c","l","e","a","r","_","n","a","m","e">>,
      <<"t","e","s","t","_","m","i","s","s","i","n","g","_","d","e","s","k">> }

\* Direct messages with the bot's token and one with another bot's;
\* mentions by every sender, with either token
Webhooks ==
    { Webhook("direct_message", sender, data, "api_token") :
        sender \in Senders, data \in Lines }
      \cup { Webhook("direct_message", NameJ, <<"h","e","l","p">>, "other_token") }
      \cup { Webhook("mention", sender, data, token) :
               sender \in Senders,
               data \in { <<"h","e","l","p">>, <<"s","e","t","_","n","a","m","e"," ">> \o NameJy },
               token \in {"api_token", "other_token"} }

Init ==
    /\ desk_owners = {}
    /\ corrected_names = {}
    /\ refresh_pc = "sleeping"
    /\ fetched = << >>
    /\ last_fetch = << >>
    /\ refresh_result = << >>
    /\ webhook = [h \in Handlers |-> << >>]
    /\ entry = [h \in Handlers |-> << >>]
    /\ home_requests = [h \in Handlers |-> 0]
    /\ home_result = [h \in Handlers |-> << >>]
    /\ reply = [h \in Handlers |-> << >>]
    /\ respond_pc = [h \in Handlers |-> "idle"]
    /\ looked_up = [h \in Handlers |-> << >>]
    /\ handler_command = [h \in Handlers |-> << >>]
    /\ NameIdle
    /\ ParseIdle
    /\ DeskIdle

refreshVars == <<desk_owners, refresh_pc, fetched, last_fetch, refresh_result>>
respondVars == <<webhook, entry, home_requests, home_result, reply, respond_pc, looked_up,
                 handler_command>>

\* interval.tick() completes and cache_desk_owners sends GET /api/desks
Tick ==
    /\ refresh_pc = "sleeping"
    /\ refresh_pc' = "fetching"
    /\ UNCHANGED <<desk_owners, fetched, last_fetch, refresh_result, corrected_names, respondVars,
                   nameVars, parseVars, deskVars>>

\* get_desks returns Err: cache_desk_owners returns it, the task logs it
\* and goes back to its interval
GetDesksErr ==
    /\ refresh_pc = "fetching"
    /\ refresh_pc' = "sleeping"
    /\ refresh_result' = << "Err" >>
    /\ UNCHANGED <<desk_owners, fetched, last_fetch, corrected_names, respondVars,
                   nameVars, parseVars, deskVars>>

\* get_desks returns Ok(desks), one of lists: the map is built and
\* desk_owners.write() returns the guard (no holder of the lock panics, so
\* it is never poisoned)
GetDesksOk(lists) ==
    /\ refresh_pc = "fetching"
    /\ \E desks \in lists :
        /\ fetched' = << OwnerMap(desks) >>
        /\ last_fetch' = << desks >>
    /\ refresh_pc' = "storing"
    /\ UNCHANGED <<desk_owners, refresh_result, corrected_names, respondVars,
                   nameVars, parseVars, deskVars>>

\* The store of a refresh that also starts the corrections afresh
Store_rebuilds_corrections ==
    /\ refresh_pc = "storing"
    /\ desk_owners' = fetched[1]
    /\ corrected_names' = {}
    /\ fetched' = << >>
    /\ refresh_pc' = "sleeping"
    /\ refresh_result' = << "Ok" >>
    /\ UNCHANGED <<last_fetch, respondVars, nameVars, parseVars, deskVars>>

\* `*d_o = x`, the guard is dropped, cache_desk_owners returns Ok
Store ==
    /\ refresh_pc = "storing"
    /\ desk_owners' = fetched[1]
    /\ fetched' = << >>
    /\ refresh_pc' = "sleeping"
    /\ refresh_result' = << "Ok" >>
    /\ UNCHANGED <<last_fetch, corrected_names, respondVars,
                   nameVars, parseVars, deskVars>>

\* The write guard of desk_owners is held
DeskOwnersWriteHeld == refresh_pc = "storing"

\* The write guard of corrected_names is held by a handler other than h
CorrectedNamesWriteHeld(h) ==
    \E other \in Handlers \ {h} : respond_pc[other] = "writing_corrected_names"

\* The command respond has parsed from the webhook handler h is handling
CommandOf(h) == handler_command[h][1]

\* run_command returned Ok(r): respond sends the avatar home
RunCommandOk(h, r) ==
    /\ reply' = [reply EXCEPT ![h] = << r >>]
    /\ home_requests' = [home_requests EXCEPT ![h] = @ + send_bot_home(TRUE)]
    /\ respond_pc' = [respond_pc EXCEPT ![h] = "sending_home"]

\* run_command returned Err(e): respond replies with the failure text r
RunCommandErr(h, r) ==
    /\ reply' = [reply EXCEPT ![h] = << r >>]
    /\ home_requests' = [home_requests EXCEPT ![h] = @ + send_bot_home(FALSE)]
    /\ respond_pc' = [respond_pc EXCEPT ![h] = "replied"]

\* Bot::respond up to run_command: a mention is answered at once; the
\* sender's desk is looked up, and without a desk the missing-desk text is
\* the reply
Respond(h, hooks) ==
    /\ respond_pc[h] = "idle"
    /\ \E w \in hooks :
        /\ webhook' = [webhook EXCEPT ![h] = << w >>]
        /\ IF IsMention(w)
           THEN /\ reply' = [reply EXCEPT ![h] = << Reply("ResponseNotRequired", << >>) >>]
                /\ respond_pc' = [respond_pc EXCEPT ![h] = "replied"]
                /\ UNCHANGED <<entry, handler_command>>
           ELSE LET found == lookup_desk_id(w.sender, corrected_names, desk_owners,
                                            CorrectedNamesWriteHeld(h), DeskOwnersWriteHeld)
                IN  /\ handler_command' =
                            [handler_command EXCEPT ![h] = << parse_cmd(w.data, now) >>]
                    /\ entry' = [entry EXCEPT ![h] = found]
                    /\ IF found # << >>
                       THEN /\ respond_pc' = [respond_pc EXCEPT ![h] = "run_command"]
                            /\ UNCHANGED reply
                       ELSE /\ reply' = [reply EXCEPT ![h] = << Reply("MissingDesk", << >>) >>]
                            /\ respond_pc' = [respond_pc EXCEPT ![h] = "replied"]
    /\ UNCHANGED <<home_requests, home_result, looked_up, corrected_names, refreshVars,
                   nameVars, parseVars, deskVars>>

\* run_command for Help (and what parses to it) and TestMissingDesk
RunHelp(h) ==
    /\ respond_pc[h] = "run_command"
    /\ CommandOf(h).kind \in {"Help", "TestMissingDesk"}
    /\ RunCommandOk(h, IF CommandOf(h).kind = "Help"
                       THEN Reply("Help", << >>)
                       ELSE Reply("MissingDesk", << >>))
    /\ UNCHANGED <<webhook, handler_command, looked_up, entry, home_result, corrected_names, refreshVars,
                   nameVars, parseVars, deskVars>>

\* cmd_set_name and cmd_clear_name up to corrected_names.try_write(): when
\* the lock is held the failure text is the reply
TryWriteCorrectedNames(h) ==
    /\ respond_pc[h] = "run_command"
    /\ CommandOf(h).kind \in {"SetName", "ClearName"}
    /\ IF CorrectedNamesWriteHeld(h)
       THEN RunCommandOk(h, Reply("FailedToSetName", << >>))
       ELSE /\ respond_pc' = [respond_pc EXCEPT ![h] = "writing_corrected_names"]
            /\ UNCHANGED <<reply, home_requests>>
    /\ UNCHANGED <<webhook, handler_command, looked_up, entry, home_result, corrected_names, refreshVars,
                   nameVars, parseVars, deskVars>>

\* cmd_set_name with `or_insert_with` alone: an entry the sender already
\* has is kept
cmd_set_name_keeps_earlier(sender, rc_username) ==
    [corrections |-> IF MapGet(corrected_names, sender) # << >>
                     THEN corrected_names
                     ELSE MapInsert(corrected_names, sender, rc_username),
     reply       |-> Reply("SetName", rc_username)]

\* Bot::cmd_set_name under the write guard: the entry of the sender's
\* username, as the webhook gives it, is set
cmd_set_name(sender, rc_username) ==
    [corrections |-> MapInsert(corrected_names, sender, rc_username),
     reply       |-> Reply("SetName", rc_username)]

\* Bot::cmd_clear_name under the write guard
cmd_clear_name(sender) ==
    [corrections |-> MapRemove(corrected_names, sender),
     reply       |-> IF MapGet(corrected_names, sender) # << >>
                     THEN Reply("ClearNameRemoved", MapGet(corrected_names, sender)[1])
                     ELSE Reply("ClearNameNone", << >>)]

\* The table is changed, the guard dropped and the confirmation returned
WriteCorrectedNames(h) ==
    /\ respond_pc[h] = "writing_corrected_names"
    /\ LET sender == webhook[h][1].sender
           done   == IF CommandOf(h).kind = "SetName"
                     THEN cmd_set_name(sender, CommandOf(h).arg)
                     ELSE cmd_clear_name(sender)
       IN  /\ corrected_names' = done.corrections
           /\ RunCommandOk(h, done.reply)
    /\ UNCHANGED <<webhook, handler_command, looked_up, entry, home_result, refreshVars, nameVars, parseVars, deskVars>>

\* The reply of _cmd_test_lookup_desk once the read guard is there: the
\* parsed name, the name after correction and the id of that name's desk
cmd_test_lookup_desk(parsed, corrected, owners) ==
    Reply("LookingUp",
          << parsed, corrected,
             IF MapGet(owners, corrected) # << >>
             THEN << MapGet(owners, corrected)[1][1] >> ELSE << >> >>)

\* _cmd_test_lookup_desk up to desk_owners.read(): the name is parsed and
\* corrected, and read() waits while the write guard is held
RunTestLookupDesk(h) ==
    /\ respond_pc[h] = "run_command"
    /\ CommandOf(h).kind = "TestLookupDesk"
    /\ LET parsed    == parse_zulip_username(CommandOf(h).arg)
           corrected == lookup_corrected_name(parsed, corrected_names,
                                              CorrectedNamesWriteHeld(h))
       IN  /\ looked_up' = [looked_up EXCEPT ![h] = << corrected >>]
           /\ IF DeskOwnersWriteHeld
              THEN /\ respond_pc' = [respond_pc EXCEPT ![h] = "waiting_desk_owners"]
                   /\ UNCHANGED <<reply, home_requests>>
              ELSE RunCommandOk(h, cmd_test_lookup_desk(parsed, corrected, desk_owners))
    /\ UNCHANGED <<webhook, handler_command, entry, home_result, corrected_names, refreshVars,
                   nameVars, parseVars, deskVars>>

\* desk_owners.read() returns once the write guard is dropped
ReadDeskOwners(h) ==
    /\ respond_pc[h] = "waiting_desk_owners"
    /\ ~DeskOwnersWriteHeld
    /\ RunCommandOk(h, cmd_test_lookup_desk(parse_zulip_username(CommandOf(h).arg),
                                            looked_up[h][1], desk_owners))
    /\ UNCHANGED <<webhook, handler_command, looked_up, entry, home_result, corrected_names, refreshVars,
                   nameVars, parseVars, deskVars>>

\* cmd_status calls update_desk for the sender's desk
RunStatus(h) ==
    /\ respond_pc[h] = "run_command"
    /\ CommandOf(h).kind = "Status"
    /\ desk_pc = "idle"
    /\ desk_id' = entry[h][1][1]
    /\ desk_pos' = entry[h][1][2]
    /\ desk_pc' = "start"
    /\ respond_pc' = [respond_pc EXCEPT ![h] = "update_desk"]
    /\ UNCHANGED <<overflow_checks, positions, bot_requests, desk_requests, update_result,
                   webhook, handler_command, looked_up, entry, home_requests, home_result, reply, corrected_names,
                   refreshVars, nameVars, parseVars>>

\* update_desk has returned: Ok gives the confirmation and the avatar is
\* sent home, Err gives the failure text; a panic of surrounding_positions
\* unwinds through respond and there is no reply
StatusReturned(h) ==
    /\ respond_pc[h] = "update_desk"
    /\ desk_pc = "returned"
    /\ IF update_result[1].kind = "Panic"
       THEN /\ respond_pc' = [respond_pc EXCEPT ![h] = "panicked"]
            /\ UNCHANGED <<reply, home_requests>>
       ELSE IF cmd_status(update_result[1]).ok
       THEN RunCommandOk(h, cmd_status(update_result[1]).reply)
       ELSE RunCommandErr(h, cmd_status(update_result[1]).reply)
    /\ desk_id' = 0
    /\ desk_pos' = Position(0, 0)
    /\ positions' = << >>
    /\ bot_requests' = << >>
    /\ desk_requests' = 0
    /\ update_result' = << >>
    /\ desk_pc' = "idle"
    /\ UNCHANGED <<overflow_checks, webhook, handler_command, looked_up, entry, home_result, corrected_names,
                   refreshVars, nameVars, parseVars>>

\* cmd_show calls get_desk: GET /api/desks is sent
RunShow(h) ==
    /\ respond_pc[h] = "run_command"
    /\ CommandOf(h).kind = "Show"
    /\ respond_pc' = [respond_pc EXCEPT ![h] = "get_desk"]
    /\ UNCHANGED <<webhook, handler_command, looked_up, entry, home_requests, home_result, reply, corrected_names,
                   refreshVars, nameVars, parseVars, deskVars>>

\* get_desk returns and cmd_show makes its reply of the desk or the error
GetDeskAnswer(h) ==
    /\ respond_pc[h] = "get_desk"
    /\ \E outcome \in GetDeskOutcomes : RunCommandOk(h, cmd_show(outcome))
    /\ UNCHANGED <<webhook, handler_command, looked_up, entry, home_result, corrected_names,
                   refreshVars, nameVars, parseVars, deskVars>>

\* _cmd_test_send_home calls send_bot_home
RunTestSendHome(h) ==
    /\ respond_pc[h] = "run_command"
    /\ CommandOf(h).kind = "TestSendHome"
    /\ home_requests' = [home_requests EXCEPT ![h] = @ + 1]
    /\ respond_pc' = [respond_pc EXCEPT ![h] = "test_send_home"]
    /\ UNCHANGED <<webhook, handler_command, looked_up, entry, home_result, reply, corrected_names,
                   refreshVars, nameVars, parseVars, deskVars>>

\* That send_bot_home returns
TestSendHomeAnswer(h) ==
    /\ respond_pc[h] = "test_send_home"
    /\ \E outcome \in UpdateBotOutcomes : RunCommandOk(h, cmd_test_send_home(outcome))
    /\ UNCHANGED <<webhook, handler_command, looked_up, entry, home_result, corrected_names,
                   refreshVars, nameVars, parseVars, deskVars>>

\* send_bot_home returns, Ok or Err: an Err is logged and the reply of the
\* command is returned either way
SendBotHomeAnswer(h) ==
    /\ respond_pc[h] = "sending_home"
    /\ \E outcome \in UpdateBotOutcomes :
        home_result' = [home_result EXCEPT ![h] =
                            << IF update_bot(outcome) THEN "Ok" ELSE "Err" >>]
    /\ respond_pc' = [respond_pc EXCEPT ![h] = "replied"]
    /\ UNCHANGED <<webhook, handler_command, looked_up, entry, home_requests, reply, corrected_names, refreshVars,
                   nameVars, parseVars, deskVars>>

\* The reply has gone out; the handler can take the next webhook
Replied(h) ==
    /\ respond_pc[h] = "replied"
    /\ webhook' = [webhook EXCEPT ![h] = << >>]
    /\ entry' = [entry EXCEPT ![h] = << >>]
    /\ home_requests' = [home_requests EXCEPT ![h] = 0]
    /\ home_result' = [home_result EXCEPT ![h] = << >>]
    /\ reply' = [reply EXCEPT ![h] = << >>]
    /\ respond_pc' = [respond_pc EXCEPT ![h] = "idle"]
    /\ looked_up' = [looked_up EXCEPT ![h] = << >>]
    /\ handler_command' = [handler_command EXCEPT ![h] = << >>]
    /\ UNCHANGED <<corrected_names, refreshVars, nameVars, parseVars, deskVars>>

(***************************************************************************)
(* The directory's specification: the refreshes, and one handler with the  *)
(* lines whose command makes no remote call of its own                     *)
(***************************************************************************)
Next ==
    \/ Tick
    \/ GetDesksErr
    \/ GetDesksOk(DeskLists)
    \/ Store
    \/ Respond("h1", Webhooks)
    \/ RunHelp("h1")
    \/ TryWriteCorrectedNames("h1")
    \/ WriteCorrectedNames("h1")
    \/ SendBotHomeAnswer("h1")
    \/ Replied("h1")

Spec == Init /\ [][Next]_vars

(***************************************************************************)
(* The locks' specification: the refreshes and two handlers, with the      *)
(* lines that take a lock                                                  *)
(***************************************************************************)
LockDeskLists ==
    { << Desk(1, <<NameJ>>, Position(5, 5)), Desk(2, <<NameJy>>, Position(0, 7)) >> }

LockWebhooks ==
    { Webhook("direct_message", NameJ, data, "api_token") :
        data \in { <<"s","e","t","_","n","a","m","e"," ">> \o NameJy,
                   <<"c","l","e","a","r","_","n","a","m","e">>,
                   <<"t","e","s","t","_","l","o","o","k","u","p","_","d","e","s","k"," ">>
                        \o NameJ } }

NextLocks ==
    \/ Tick
    \/ GetDesksErr
    \/ GetDesksOk(LockDeskLists)
    \/ Store
    \/ \E h \in Handlers :
        \/ Respond(h, LockWebhooks)
        \/ TryWriteCorrectedNames(h)
        \/ WriteCorrectedNames(h)
        \/ RunTestLookupDesk(h)
        \/ ReadDeskOwners(h)
        \/ SendBotHomeAnswer(h)
        \/ Replied(h)

SpecLocks == Init /\ [][NextLocks]_vars

(***************************************************************************)
(* The commands' specification: one handler, a directory that has been     *)
(* fetched, and the lines whose command calls the platform                 *)
(***************************************************************************)
\* The directory: a desk inside the grid and one in its first column
CommandDesks ==
    << Desk(1, <<NameJ>>, Position(5, 5)), Desk(2, <<NameJy>>, Position(0, 7)) >>

CommandWebhooks ==
    { Webhook("direct_message", sender, data, "api_token") :
        sender \in { NameJ, NameJy, <<"K">> },
        data \in { <<"s","t","a","t","u","s"," ","h","i">>,
                   <<"s","h","o","w">>,
                   <<"h","e","l","p">>,
                   <<"t","e","s","t","_","s","e","n","d","_","h","o","m","e">> } }

InitCommands ==
    /\ desk_owners = OwnerMap(CommandDesks)
    /\ corrected_names = {}
    /\ refresh_pc = "sleeping"
    /\ fetched = << >>
    /\ last_fetch = << CommandDesks >>
    /\ refresh_result = << "Ok" >>
    /\ webhook = [h \in Handlers |-> << >>]
    /\ entry = [h \in Handlers |-> << >>]
    /\ home_requests = [h \in Handlers |-> 0]
    /\ home_result = [h \in Handlers |-> << >>]
    /\ reply = [h \in Handlers |-> << >>]
    /\ respond_pc = [h \in Handlers |-> "idle"]
    /\ looked_up = [h \in Handlers |-> << >>]
    /\ handler_command = [h \in Handlers |-> << >>]
    /\ desk_id = 0
    /\ desk_pos = Position(0, 0)
    /\ overflow_checks \in BOOLEAN
    /\ positions = << >>
    /\ bot_requests = << >>
    /\ desk_requests = 0
    /\ update_result = << >>
    /\ desk_pc = "idle"
    /\ NameIdle
    /\ ParseIdle

NextCommands ==
    \/ Respond("h1", CommandWebhooks)
    \/ RunHelp("h1")
    \/ RunStatus("h1")
    \/ UpdateDeskCall
    \/ UpdateBotAnswer
    \/ UpdateDeskAnswer
    \/ StatusReturned("h1")
    \/ RunShow("h1")
    \/ GetDeskAnswer("h1")
    \/ RunTestSendHome("h1")
    \/ TestSendHomeAnswer("h1")
    \/ SendBotHomeAnswer("h1")
    \/ Replied("h1")

SpecCommands == InitCommands /\ [][NextCommands]_vars

(***************************************************************************)
(* The commands and the refreshes with their scheduling.  The runtime      *)
(* polls a task that can go on, so the steps the bot takes by itself are   *)
(* taken sooner or later, and so is the tick of the interval.  The answer  *)
(* to a request is the platform's step: the client is built without a      *)
(* timeout and no request is raced against a timer, so nothing obliges an  *)
(* answer to come.                                                         *)
(***************************************************************************)
NextAwait ==
    \/ NextCommands
    \/ Tick
    \/ GetDesksErr
    \/ GetDesksOk(LockDeskLists)
    \/ Store

\* The steps of the refresh task that need no answer from the platform
RefreshOwnSteps ==
    \/ Tick
    \/ Store

\* The steps of the handler that need no answer from the platform
HandlerOwnSteps ==
    \/ RunHelp("h1")
    \/ RunStatus("h1")
    \/ UpdateDeskCall
    \/ StatusReturned("h1")
    \/ RunShow("h1")
    \/ RunTestSendHome("h1")
    \/ Replied("h1")

SpecAwait ==
    /\ InitCommands
    /\ [][NextAwait]_vars
    /\ WF_vars(RefreshOwnSteps)
    /\ WF_vars(HandlerOwnSteps)

(***************************************************************************)
(* Claims about the parser                                                 *)
(***************************************************************************)
CommandKinds ==
    {"Status", "Show", "Clear", "Feedback", "SetName", "ClearName", "Help",
     "TestMissingDesk", "TestLookupDesk", "TestSendHome"}

\* The keyword set of the command parser (spec 4.3), diagnostic ones included
Keywords ==
    KeywordFragments \ { <<"S","t","a","t","u","s">>, <<"x">> }

\* The first whitespace-separated token of s is none of the keywords
FirstTokenUnknown(s) ==
    LET first == SubSeq(TrimStart(s), 1, TokenEnd(TrimStart(s), 1) - 1)
    IN  first \notin Keywords

\* C1: parse_cmd returns exactly one Command for every line, and Help for a
\* blank line, for a line whose first token is not a keyword (compared
\* exactly, by case), and for `status` with no further token.
C1_HelpByDefault ==
    parse_pc = "done" /\ command # << >> =>
        /\ Len(command) = 1
        /\ command[1].kind \in CommandKinds
        /\ (\A i \in 1..Len(message) : message[i] \in WhiteSpace)
                => command[1].kind = "Help"
        /\ FirstTokenUnknown(message) => command[1].kind = "Help"
        /\ Trim(message) = <<"s","t","a","t","u","s">> => command[1].kind = "Help"

\* Reached: `Status hi`, whose first token is a keyword in another case,
\* has been parsed to Help
C1_Witness ==
    /\ parse_pc = "done"
    /\ message = <<"S","t","a","t","u","s"," ","h","i">>
    /\ command = << Command("Help", << >>, << >>) >>

\* Reached: `status` followed only by whitespace has been parsed to Help
C1_WitnessBareStatus ==
    /\ parse_pc = "done"
    /\ message = <<"s","t","a","t","u","s"," ","\t">>
    /\ command = << Command("Help", << >>, << >>) >>

\* The groups of `:alias: text <time:T>` and what each stands for
C2Emojis ==
    { << << >>, << >> >>,
      << <<":","a","p","p","l","e",":">>, << <<"U+1F34E">> >> >>,
      << <<":","t","a","d","a",":">>, << <<"U+1F389">> >> >> }

C2Texts ==
    { << << >>, << >> >>,
      << <<" ","h","i">>, << <<"h","i">> >> >>,
      << <<" ","h","i"," ","h","i">>, << <<"h","i"," ","h","i">> >> >> }

C2Times ==
    { << << >>, << >> >>,
      << <<" ">> \o TimeOpen \o T1 \o <<">">>,
         << OffsetDateTime(2025, 1, 1, 13, 0, 0, -4, 0) >> >> }

\* C2: parse_status of `:alias: text <time:T>` yields the alias's grapheme,
\* the trimmed text and T; with only some of the three groups in the input
\* it yields just the groups present.
C2_GroupsPresent ==
    parse_pc = "done" /\ status # << >> =>
        \A e \in C2Emojis : \A t \in C2Texts : \A x \in C2Times :
            input = e[1] \o t[1] \o x[1]
                => status[1] = [emoji |-> e[2], status |-> t[2], expires_at |-> x[2]]

\* C3: parsing never assigns the default expiration: a status input with
\* text and no time group gives a Status whose expires_at is absent.
C3_NoDefaultWhenParsing ==
    (/\ parse_pc = "done"
     /\ status # << >>
     /\ \A i \in 1..Len(input) : input[i] # "<"
     /\ status[1].status # << >>)
        => status[1].expires_at = << >>

\* The unknown aliases and the malformed time groups of C16, with what
\* each leaves in its field; a known alias and a valid time for comparison
C16Emojis ==
    { << << >>, << >>, FALSE >>,
      << <<":","a","p","p","l","e",":">>, << <<"U+1F34E">> >>, FALSE >>,
      << <<":","s","a","d","p","a","r","r","o","t",":">>, << >>, TRUE >>,
      << <<":","z","z",":">>, << >>, TRUE >> }

C16Times ==
    { << << >>, << >>, FALSE >>,
      << TimeOpen \o T2 \o <<">">>, << OffsetDateTime(2023, 11, 29, 20, 0, 0, 0, 0) >>, FALSE >>,
      << TimeOpen \o <<">">>, << >>, TRUE >>,
      << TimeOpen \o SubSeq(T2, 1, 10) \o <<">">>, << >>, TRUE >>,
      << <<"<",">">>, << >>, TRUE >> }

\* C16: in parse_status a soft miss blanks only its own field: an unknown
\* alias leaves emoji absent, a time group that is not a full timestamp
\* leaves expires_at absent, and the other groups are parsed as without the
\* miss.
C16_SoftMiss ==
    parse_pc = "done" /\ status # << >> =>
        \A e \in C16Emojis : \A t \in C2Texts : \A x \in C16Times :
            (input = e[1] \o t[1] \o x[1] /\ (e[3] \/ x[3]))
                => status[1] = [emoji |-> e[2], status |-> t[2], expires_at |-> x[2]]

\* What remains of C16 beside the default expiration: the emoji and the
\* text are as the claim says in every case, and so is expires_at whenever
\* the input has no text
SoftMissBesideDefault ==
    parse_pc = "done" /\ status # << >> =>
        \A e \in C16Emojis : \A t \in C2Texts : \A x \in C16Times :
            (input = e[1] \o t[1] \o x[1] /\ (e[3] \/ x[3]))
                => /\ status[1].emoji = e[2]
                   /\ status[1].status = t[2]
                   /\ (t[2] = << >> \/ x[2] # << >>) => status[1].expires_at = x[2]

\* The aliases that resolve, with their graphemes
C17Graphemes ==
    { << <<"a","p","p","l","e">>, <<"U+1F34E">> >>,
      << <<"o","c","t","o","p","u","s">>, <<"U+1F419">> >>,
      << <<"t","a","d","a">>, <<"U+1F389">> >> }

C17_WitnessEmptyAlias ==
    /\ parse_pc = "done"
    /\ input = <<":",":">>
    /\ status # << >>
    /\ status[1].status = << <<":",":">> >>
    /\ status[1].emoji = << >>

\* A status text as C20 wants it
TextOk(t) ==
    /\ t # << >>
    /\ t[1] \notin WhiteSpace
    /\ t[Len(t)] \notin WhiteSpace
    /\ \A i \in 1..Len(t) : t[i] \notin {"<", ">", "\r", "\n", "\t"}

\* C20: the text of a Status produced by parse_status or parse_cmd is, when
\* present, non-empty, free of leading and trailing whitespace, and
\* contains none of `<`, `>`, carriage return, newline or tab.
C20_TextClean ==
    /\ (status # << >> /\ status[1].status # << >>) => TextOk(status[1].status[1])
    /\ (command # << >> /\ command[1].status # << >> /\ command[1].status[1].status # << >>)
            => TextOk(command[1].status[1].status[1])

\* Reached: an input with whitespace around its text, a tab in it and a `<`
\* after it has been parsed to the text before the tab
C20_Witness ==
    /\ parse_pc = "done"
    /\ input = <<" ","h","i","\t"," ","h","i">>
    /\ status # << >>
    /\ status[1].status = << <<"h","i">> >>

\* Reached: parse_cmd has produced a Status command with a text
C20_WitnessCmd ==
    /\ parse_pc = "done"
    /\ command # << >>
    /\ command[1].kind = "Status"
    /\ command[1].status[1].status = << <<"h","i"," ","h","i">> >>

\* The first whitespace-separated token of s, empty for a blank line
FirstToken(s) == SubSeq(TrimStart(s), 1, TokenEnd(TrimStart(s), 1) - 1)

\* The tokens of s after the first
LaterTokens(s) == Tail(SplitWhitespace(s))

\* C23: parse_cmd of a line whose first token is `feedback` and that has at
\* least one more token returns Feedback(text), text being the later tokens
\* joined by single spaces; `feedback` without a later token returns Help.
C23_FeedbackText ==
    ( /\ parse_pc = "done"
      /\ command # << >>
      /\ FirstToken(message) = <<"f","e","e","d","b","a","c","k">> )
    => command = << IF LaterTokens(message) # << >>
                    THEN Command("Feedback", JoinSpace(LaterTokens(message)), << >>)
                    ELSE Command("Help", << >>, << >>) >>

\* C24: parse_cmd of a line whose first token is `clear` or `feedback`
\* returns Help, whatever follows; no line makes parse_cmd return Clear or
\* Feedback.
C24_ClearAndFeedbackAreHelp ==
    ( parse_pc = "done" /\ command # << >> )
    => /\ command[1].kind \notin {"Clear", "Feedback"}
       /\ FirstToken(message) \in { <<"c","l","e","a","r">>,
                                    <<"f","e","e","d","b","a","c","k">> }
            => command = << Command("Help", << >>, << >>) >>

\* Reached: `feedback hi` has been parsed to Help
C24_Witness ==
    /\ parse_pc = "done"
    /\ message = <<"f","e","e","d","b","a","c","k"," ","h","i">>
    /\ command = << Command("Help", << >>, << >>) >>

\* Reached: `clear`, alone, has been parsed to Help
C24_WitnessClear ==
    /\ parse_pc = "done"
    /\ message = <<"c","l","e","a","r">>
    /\ command = << Command("Help", << >>, << >>) >>

\* Where the groups of an input lie when they are read in the order emoji,
\* text, time from its first character: the alias between the first colon
\* and the next colon that leaves it a character, the text up to the first
\* character a text cannot hold, and the place a time group has to open at
C29Groups(s) ==
    LET closers   == { j \in 3..Len(s) : s[j] = ":" }
        has_alias == Len(s) >= 3 /\ s[1] = ":" /\ closers # {}
        alias_end == IF has_alias THEN Min(closers) ELSE 0
        skip(p)   == IF p <= Len(s) /\ s[p] \in {" ", "\t", "\r", "\n"} THEN p + 1 ELSE p
        text_from == skip(alias_end + 1)
        stops     == { j \in text_from..Len(s) : s[j] \in {"<", ">", "\t", "\r", "\n"} }
        text_to   == IF stops = {} THEN Len(s) ELSE Min(stops) - 1
    IN  [alias     |-> IF has_alias THEN << SubSeq(s, 2, alias_end - 1) >> ELSE << >>,
         text      |-> Trim(SubSeq(s, text_from, text_to)),
         time_from |-> skip(text_to + 1)]

\* The timestamps of the time groups among the inputs
C29Times ==
    { OffsetDateTime(2025, 1, 1, 13, 0, 0, -4, 0),
      OffsetDateTime(2023, 11, 29, 20, 0, 0, 0, 0) }

\* C29: the status sub-parser reads its three groups only in the order
\* emoji, text, time from the first character of its input and always
\* returns a status: an alias between colons that comes after text is part
\* of the text and gives no emoji, and what follows a time group, or the
\* first `<` or `>` that does not open a time group, is dropped.
C29_OrderedGroups ==
    parse_pc = "done" /\ command = << >> =>
        /\ Len(status) = 1
        /\ status[1].emoji =
              IF C29Groups(input).alias # << >>
              THEN parse_emoji(Trim(C29Groups(input).alias[1]))
              ELSE << >>
        /\ status[1].status =
              IF C29Groups(input).text # << >> THEN << C29Groups(input).text >> ELSE << >>
        /\ ( status[1].expires_at # << >> /\ status[1].expires_at[1] \in C29Times )
              => StartsWithAt(input, C29Groups(input).time_from, TimeOpen)

\* Reached: `apple:apple:` has been parsed to the text `apple:apple:`
\* without emoji
C29_Witness ==
    /\ parse_pc = "done"
    /\ input = <<"a","p","p","l","e",":","a","p","p","l","e",":">>
    /\ status # << >>
    /\ status[1].emoji = << >>
    /\ status[1].status = << input >>

\* Reached: of `:apple:<><time:T>` the emoji is kept and the time group
\* after `<>` is dropped
C29_WitnessDropped ==
    /\ parse_pc = "done"
    /\ input = <<":","a","p","p","l","e",":","<",">">> \o TimeOpen \o T2 \o <<">">>
    /\ status # << >>
    /\ status[1].emoji # << >>
    /\ status[1].status = << >>
    /\ status[1].expires_at = << >>

(***************************************************************************)
(* Claims about the rendering                                              *)
(***************************************************************************)
\* C18: for every Status whose text contains no `<` or `>`, rendering it
\* with Display and passing the rendering to parse_status gives back the
\* same emoji, text and expires_at.
C18_RoundTrip ==
    (/\ parse_pc = "reparsed"
     /\ status[1].status # << >> =>
            \A i \in 1..Len(status[1].status[1]) : status[1].status[1][i] \notin {"<", ">"})
        => reparsed = status

\* The rendering C19 expects of parts: those supplied, in the order emoji,
\* text, <time:ISO8601>, joined by single spaces
C19Expected(p) ==
    LET time == IF p[3] # << >>
                THEN << TimeOpen \o FormatIso8601(p[3][1])[1] \o <<">">> >>
                ELSE << >>
    IN  Trim(JoinSpace(p[1] \o p[2] \o time))

\* C19: a Status built from the parts (emoji, text, expires_at) renders as
\* exactly the parts that were supplied, joined by single spaces; a part
\* that was not supplied contributes nothing, and with no part supplied the
\* rendering is the empty string.
C19_RendersParts ==
    (parse_pc \in {"rendered", "reparsed"} /\ parts # << >>)
        => display = << C19Expected(parts[1]) >>

\* What remains of C19 beside the default expiration: parts with a time, or
\* without a text, render as the claim says
RendersPartsBesideDefault ==
    (/\ parse_pc \in {"rendered", "reparsed"}
     /\ parts # << >>
     /\ (parts[1][2] = << >> \/ parts[1][3] # << >>))
        => display = << C19Expected(parts[1]) >>

(***************************************************************************)
(* Claims about the placement                                              *)
(***************************************************************************)
\* The eight neighbours of pos in the claimed order, each coordinate
\* clamped to the grid
ClampedNeighbours(pos) ==
    LET xm == Clamp(pos.x - 1, GRID_X_MIN, GRID_X_MAX)
        xp == Clamp(pos.x + 1, GRID_X_MIN, GRID_X_MAX)
        ym == Clamp(pos.y - 1, GRID_Y_MIN, GRID_Y_MAX)
        yp == Clamp(pos.y + 1, GRID_Y_MIN, GRID_Y_MAX)
    IN  << Position(xm, pos.y), Position(xp, pos.y),
           Position(pos.x, ym), Position(xm, ym), Position(xp, ym),
           Position(pos.x, yp), Position(xm, yp), Position(xp, yp) >>

\* C8: for every target in the grid surrounding_positions returns 8
\* positions, in the order left, right, top, top-left, top-right, bottom,
\* bottom-left, bottom-right, every coordinate clamped to the grid; for the
\* target (0,0) the left candidate is (0,0) and the call does not fail.
C8_ClampedNeighbours ==
    desk_pc = "positions_done" =>
        /\ ~positions[1].panicked
        /\ Len(positions[1].list) = 8
        /\ positions[1].list = ClampedNeighbours(desk_pos)
        /\ \A k \in 1..Len(positions[1].list) :
                /\ positions[1].list[k].x \in GRID_X_MIN..GRID_X_MAX
                /\ positions[1].list[k].y \in GRID_Y_MIN..GRID_Y_MAX
        /\ desk_pos = Position(0, 0) => positions[1].list[1] = Position(0, 0)

\* C9: update_desk sends the relocation requests for the 8 candidates in
\* their priority order and stops at the first the platform accepts; the
\* desk update is sent at most once and only after an accepted relocation;
\* when all 8 relocations are rejected no desk update is sent and the call
\* fails with the no-open-position error naming the desk id and position.
C9_RelocateThenUpdate ==
    LET n          == Len(bot_requests)
        candidates == surrounding_positions(desk_pos, overflow_checks).list
    IN  desk_pc \in {"relocating", "updating", "returned"} =>
            /\ n <= Len(candidates)
            /\ \A k \in 1..n : bot_requests[k].pos = candidates[k]
            /\ \A k \in 1..(n - 1) : bot_requests[k].answer = "rejected"
            /\ desk_requests <= 1
            /\ desk_requests = 1 => (n >= 1 /\ bot_requests[n].answer = "accepted")
            /\ (n = 8 /\ bot_requests[n].answer = "rejected") =>
                    /\ desk_requests = 0
                    /\ desk_pc = "returned"
                    /\ update_result = << NoOpenPosition(desk_id, desk_pos) >>

\* The same protocol read with update_bot's Result in the place of the
\* platform's answer: the requests follow the candidates in order, none
\* follows one that update_bot returned Ok for, the desk update is sent once
\* and only after such a one, and the no-open-position error is returned
\* exactly when update_bot failed for all 8
RelocateUntilOk ==
    LET n          == Len(bot_requests)
        candidates == surrounding_positions(desk_pos, overflow_checks).list
    IN  desk_pc \in {"relocating", "updating", "returned"} =>
            /\ n <= Len(candidates)
            /\ \A k \in 1..n : bot_requests[k].pos = candidates[k]
            /\ \A k \in 1..(n - 1) : ~bot_requests[k].ok
            /\ desk_requests <= 1
            /\ desk_requests = 1 <=> (n >= 1 /\ bot_requests[n].ok)
            /\ (update_result # << >> /\ update_result[1].kind = "ErrNoOpenPosition") <=>
                    (n = 8 /\ desk_pc = "returned" /\ \A k \in 1..n : ~bot_requests[k].ok)
            /\ (update_result # << >> /\ update_result[1].kind = "ErrNoOpenPosition") =>
                    update_result = << NoOpenPosition(desk_id, desk_pos) >>

(***************************************************************************)
(* Claims about the handling of a direct message                           *)
(***************************************************************************)
\* C13: every direct message gets exactly one content reply; for no
\* directory content, command line or remote outcome does the handler panic
\* or end without a reply.
C13_AlwaysReplies ==
    \A h \in Handlers : respond_pc[h] # "panicked"

\* What the claim says of the remote calls that fail: the reply of a
\* direct message is content, and after a failed relocation or desk update
\* of status, or a failed fetch of show, it is the text of the failure
FailuresAreReplyText ==
    [][ \A h \in Handlers :
          /\ ( /\ respond_pc'[h] = "replied"
               /\ webhook'[h][1].trigger = "direct_message" )
             => /\ reply'[h] # << >>
                /\ reply'[h][1].kind # "ResponseNotRequired"
          /\ ( /\ respond_pc[h] = "update_desk"
               /\ respond_pc'[h] # "update_desk"
               /\ update_result[1].kind \notin {"Ok", "Panic"} )
             => /\ respond_pc'[h] = "replied"
                /\ reply'[h][1].kind = "Failed"
                /\ reply'[h][1].arg[1] = update_result[1].kind
          /\ ( /\ respond_pc[h] = "get_desk"
               /\ respond_pc'[h] # "get_desk"
               /\ reply'[h][1].kind \notin {"ShowStatus", "EmptyStatus"} )
             => /\ reply'[h][1].kind = "Error"
                /\ reply'[h][1].arg[1] \in {"network_error", "unreadable", "missing"} ]_vars

\* C14: after a status command whose desk update succeeded, one request to
\* move the avatar home is sent, after the update has been answered and
\* before the reply is returned; the reply is the confirmation of the
\* update whether that request succeeds or fails.
C14_OneHomeAfterUpdate ==
    [][ \A h \in Handlers :
          /\ ( /\ respond_pc[h] = "update_desk"
               /\ respond_pc'[h] # "update_desk"
               /\ update_result[1].kind = "Ok" )
             => /\ desk_requests = 1
                /\ home_requests[h] = 0
                /\ home_requests'[h] = 1
                /\ home_result'[h] = << >>
                /\ respond_pc'[h] = "sending_home"
                /\ reply'[h] = << Reply("UpdatedStatus", << >>) >>
          /\ ( /\ respond_pc[h] = "sending_home"
               /\ respond_pc'[h] # "sending_home" )
             => /\ respond_pc'[h] = "replied"
                /\ home_result'[h] \in { << "Ok" >>, << "Err" >> }
                /\ home_requests'[h] = home_requests[h]
                /\ reply'[h] = reply[h]
          /\ ( /\ respond_pc'[h] = "replied"
               /\ reply'[h] = << Reply("UpdatedStatus", << >>) >> )
             => home_requests'[h] = 1 ]_vars

\* Reached: the desk update of a status command succeeded, the request to
\* move the avatar home failed, and the reply is the confirmation
C14_Witness ==
    \E h \in Handlers :
        /\ respond_pc[h] = "replied"
        /\ parse_cmd(webhook[h][1].data, now).kind = "Status"
        /\ reply[h] = << Reply("UpdatedStatus", << >>) >>
        /\ home_requests[h] = 1
        /\ home_result[h] = << "Err" >>

\* Reached: the same with a request home that succeeded
C14_WitnessHomeOk ==
    \E h \in Handlers :
        /\ respond_pc[h] = "replied"
        /\ parse_cmd(webhook[h][1].data, now).kind = "Status"
        /\ reply[h] = << Reply("UpdatedStatus", << >>) >>
        /\ home_requests[h] = 1
        /\ home_result[h] = << "Ok" >>

\* C25: whenever handling a command has moved the avatar to a position next
\* to a desk, a request to move it home is sent before the reply is
\* returned, also when the desk update after the relocation fails.
C25_HomeAfterRelocation ==
    [][ \A h \in Handlers :
          ( /\ respond_pc[h] = "update_desk"
            /\ respond_pc'[h] # "update_desk"
            /\ \E k \in 1..Len(bot_requests) : bot_requests[k].answer = "accepted" )
          => /\ home_requests'[h] = home_requests[h] + 1
             /\ respond_pc'[h] = "sending_home" ]_vars

\* C27: handling a direct message that does not change the remote status
\* (help, show, set_name, clear_name or a line that parses to Help) sends no
\* request that moves the avatar; such requests are sent only while a
\* status command is handled.
C27_RelocationOnlyForStatus ==
    \A h \in Handlers :
        ( /\ webhook[h] # << >>
          /\ webhook[h][1].trigger = "direct_message"
          /\ parse_cmd(webhook[h][1].data, now).kind
                \in {"Help", "Show", "SetName", "ClearName"} )
        => home_requests[h] = 0

\* C30: every direct message is replied to in the end and every refresh
\* ends, also when a request is never answered.  (A handler that panicked
\* is left aside here.)
C30_BoundedWait ==
    /\ \A h \in Handlers :
          (respond_pc[h] \notin {"idle", "panicked"})
              ~> (respond_pc[h] \in {"replied", "panicked"})
    /\ (refresh_pc = "fetching") ~> (refresh_pc = "sleeping")

\* The part of it that needs no answer: a handler that is not waiting for
\* the platform replies in the end
RepliesUnlessAwaiting ==
    \A h \in Handlers :
        (respond_pc[h] \notin {"idle", "panicked"})
            ~> \/ respond_pc[h] \in {"replied", "panicked", "get_desk",
                                     "test_send_home", "sending_home"}
               \/ respond_pc[h] = "update_desk" /\ desk_pc \in {"relocating", "updating"}

(***************************************************************************)
(* Claims about the directory and the corrections                          *)
(***************************************************************************)
\* C7: once a sender's set_name(n) has been confirmed and n has a directory
\* entry, lookup_desk_id of that sender's chat username returns n's
\* (id, position), whether or not the username carries a pronoun or cohort
\* parenthetical.
C7_CorrectedLookup ==
    [][ \A h \in Handlers :
          ( /\ respond_pc[h] = "idle"
            /\ respond_pc'[h] # "idle"
            /\ webhook'[h][1].trigger = "direct_message"
            /\ refresh_pc # "storing"
            /\ MapGet(corrected_names, webhook'[h][1].sender) # << >>
            /\ MapGet(desk_owners, MapGet(corrected_names, webhook'[h][1].sender)[1]) # << >> )
          => entry'[h] = MapGet(desk_owners,
                                MapGet(corrected_names, webhook'[h][1].sender)[1]) ]_vars

\* The entries the claim expects for the desks of a fetch: for every owner
\* named by one of the desks, the (id, position) of the last desk that names
\* them, and nothing else
OwnedEntries(desks) ==
    { << desks[k].owner[1], <<desks[k].id, desks[k].pos>> >> :
        k \in { k \in 1..Len(desks) :
                  /\ desks[k].owner # << >>
                  /\ \A j \in (k + 1)..Len(desks) : desks[j].owner # desks[k].owner } }

\* C10: after any sequence of refreshes the directory is the owner-name to
\* (id, position) map of the owned desks of the most recent successful
\* fetch, and empty before the first one; a failed fetch changes nothing
\* and the next refresh can start after it; a successful one replaces the
\* whole table.  While the map of a fetch waits
\* for the store under the write lock, it is already that map.
C10_DirectoryIsLastFetch ==
    /\ refresh_pc \in {"sleeping", "fetching"} =>
            desk_owners = IF last_fetch = << >> THEN {} ELSE OwnedEntries(last_fetch[1])
    /\ refresh_pc = "storing" => fetched = << OwnedEntries(last_fetch[1]) >>
    /\ (refresh_pc = "sleeping" /\ refresh_result = << "Ok" >>) => last_fetch # << >>
    /\ refresh_pc = "sleeping" => ENABLED Tick

\* Reached: a fetch that named one owner twice and had an ownerless desk was
\* stored, and the fetch after it failed
C10_Witness ==
    /\ refresh_pc = "sleeping"
    /\ refresh_result = << "Err" >>
    /\ last_fetch # << >>
    /\ \E ds \in {last_fetch[1]} :
          /\ \E k \in 1..Len(ds) : ds[k].owner = << >>
          /\ \E k \in 1..Len(ds) : ds[k].owner # << >>
    /\ desk_owners # {}

\* Reached: a successful fetch without any owned desk has replaced a
\* directory that had entries, and the refresh after it is under way
C10_WitnessEmptied ==
    /\ refresh_pc = "fetching"
    /\ refresh_result = << "Ok" >>
    /\ last_fetch # << >>
    /\ desk_owners = {}
    /\ corrected_names # {}

\* C11: a lookup that runs while a refresh is in flight returns what the
\* lookup of the name in the whole table from before the refresh or in the
\* whole table the refresh stores would return, and nothing else; a name
\* with the same entry in both is found.
C11_SnapshotLookup ==
    [][ \A h \in Handlers :
          ( /\ respond_pc[h] = "idle"
            /\ respond_pc'[h] # "idle"
            /\ webhook'[h][1].trigger = "direct_message" )
          => LET sender == webhook'[h][1].sender
                 before == desk_owners
                 after  == IF refresh_pc = "storing" THEN fetched[1] ELSE desk_owners
             IN  entry'[h] \in
                   { lookup_desk_id(sender, corrected_names, before, FALSE, FALSE),
                     lookup_desk_id(sender, corrected_names, after, FALSE, FALSE) } ]_vars

\* C12: no handler of a chat event ever waits for the lock of the directory
\* or for the lock of the corrections.
C12_NeverWaits ==
    \A h \in Handlers : respond_pc[h] # "waiting_desk_owners"

\* What the claim says of the calls that ask for a lock without waiting: a
\* lookup_desk_id that does not get the directory returns none, one that
\* does not get the corrections uses the uncorrected name, and a set_name
\* or clear_name that does not get the corrections replies with the failure
\* text and leaves the table as it is
TryLockFallbacks ==
    [][ \A h \in Handlers :
          /\ ( /\ respond_pc[h] = "idle"
               /\ respond_pc'[h] # "idle"
               /\ webhook'[h][1].trigger = "direct_message" )
             => /\ refresh_pc = "storing" =>
                      /\ entry'[h] = << >>
                      /\ respond_pc'[h] = "replied"
                /\ ( /\ refresh_pc # "storing"
                     /\ \E other \in Handlers \ {h} :
                            respond_pc[other] = "writing_corrected_names" )
                   => entry'[h] = MapGet(desk_owners,
                                         parse_zulip_username(webhook'[h][1].sender))
          /\ ( /\ respond_pc[h] = "run_command"
               /\ respond_pc'[h] # "run_command"
               /\ parse_cmd(webhook[h][1].data, now).kind \in {"SetName", "ClearName"}
               /\ \E other \in Handlers \ {h} :
                      respond_pc[other] = "writing_corrected_names" )
             => /\ reply'[h] = << Reply("FailedToSetName", << >>) >>
                /\ corrected_names' = corrected_names ]_vars

\* C15: a webhook whose trigger is `mention` is answered
\* `response_not_required` in the step that takes it, whatever its text,
\* sender or token; that step looks nothing up, sends no request and
\* leaves the directory, the corrections and the refresh as they are.
C15_MentionNotRequired ==
    [][ \A h \in Handlers :
          /\ ( /\ respond_pc[h] = "idle"
               /\ respond_pc'[h] # "idle"
               /\ webhook'[h][1].trigger = "mention" )
             => /\ respond_pc'[h] = "replied"
                /\ reply'[h] = << Reply("ResponseNotRequired", << >>) >>
                /\ entry'[h] = << >>
                /\ home_requests'[h] = 0
                /\ home_result'[h] = << >>
                /\ UNCHANGED <<desk_owners, corrected_names, refreshVars, deskVars>>
          /\ ( /\ webhook[h] # << >>
               /\ webhook[h][1].trigger = "mention"
               /\ respond_pc'[h] # respond_pc[h] )
             => /\ respond_pc[h] = "replied"
                /\ respond_pc'[h] = "idle"
                /\ UNCHANGED <<desk_owners, corrected_names, refreshVars, deskVars>> ]_vars

\* Reached: a mention whose token is not the bot's, from a sender who has a
\* desk and with a set_name line, has been answered `response_not_required`
\* while the directory was being stored
C15_Witness ==
    \E h \in Handlers :
        /\ respond_pc[h] = "replied"
        /\ webhook[h] = << Webhook("mention", NameJ,
                                   <<"s","e","t","_","n","a","m","e"," ">> \o NameJy,
                                   "other_token") >>
        /\ reply[h] = << Reply("ResponseNotRequired", << >>) >>
        /\ MapGet(desk_owners, NameJ) # << >>
        /\ corrected_names = {}
        /\ refresh_pc = "storing"

\* C21: a sender whose lookup misses because their chat name is not the
\* name of a desk owner can send `set_name {name}` in a direct message: the
\* command is executed, so that the correction is recorded and their later
\* commands resolve the desk of {name}.
C21_SetNameAfterMiss ==
    [][ \A h \in Handlers :
          ( /\ respond_pc[h] = "idle"
            /\ respond_pc'[h] # "idle"
            /\ webhook'[h][1].trigger = "direct_message"
            /\ parse_cmd(webhook'[h][1].data, now).kind = "SetName"
            /\ refresh_pc # "storing"
            /\ desk_owners # {}
            /\ MapGet(corrected_names, webhook'[h][1].sender) = << >>
            /\ MapGet(desk_owners, parse_zulip_username(webhook'[h][1].sender)) = << >> )
          => respond_pc'[h] = "run_command" ]_vars

\* The line is `set_name` followed by one space and a name
IsSetNameLine(data) ==
    Len(data) >= 9 /\ SubSeq(data, 1, 9) = <<"s","e","t","_","n","a","m","e"," ">>

\* C22: the corrections hold at most one name per chat username: an
\* executed set_name stores the name given, in place of any earlier one, and
\* confirms it; an executed clear_name removes the sender's entry and
\* reports the name removed, or that there was none; so after set_name and
\* clear_name of one sender there is no entry of that sender; no entry of
\* another sender changes.
C22_OneCorrectionPerSender ==
    [][ /\ \A p, q \in corrected_names' : p[1] = q[1] => p = q
        /\ \A h \in Handlers :
             ( /\ respond_pc[h] = "writing_corrected_names"
               /\ respond_pc'[h] # "writing_corrected_names" )
             => LET sender == webhook[h][1].sender
                    data   == webhook[h][1].data
                    given  == SubSeq(data, 10, Len(data))
                    before == { p \in corrected_names : p[1] = sender }
                    after  == { p \in corrected_names' : p[1] = sender }
                IN  /\ { p \in corrected_names' : p[1] # sender }
                          = { p \in corrected_names : p[1] # sender }
                    /\ IF IsSetNameLine(data)
                       THEN /\ after = { << sender, given >> }
                            /\ reply'[h] = << Reply("SetName", given) >>
                       ELSE /\ data = <<"c","l","e","a","r","_","n","a","m","e">>
                            /\ after = {}
                            /\ reply'[h] =
                                 << IF before = {}
                                    THEN Reply("ClearNameNone", << >>)
                                    ELSE Reply("ClearNameRemoved",
                                               (CHOOSE p \in before : TRUE)[2]) >> ]_vars

\* Reached: a sender's clear_name has removed the name their set_name had
\* stored, and the entry of another sender is still there
C22_Witness ==
    \E h \in Handlers :
        /\ respond_pc[h] = "sending_home"
        /\ webhook[h][1].sender = NameJ
        /\ reply[h] = << Reply("ClearNameRemoved", NameJy) >>
        /\ MapGet(corrected_names, NameJ) = << >>
        /\ corrected_names # {}

\* Reached: a sender's second set_name has been confirmed and its name has
\* taken the place of the first
C22_WitnessOverwritten ==
    \E h \in Handlers :
        /\ respond_pc[h] = "sending_home"
        /\ webhook[h][1].sender = NameJ
        /\ entry[h] = << <<2, Position(0, 7)>> >>
        /\ reply[h] = << Reply("SetName", NameJ) >>
        /\ MapGet(corrected_names, NameJ) = << NameJ >>

\* C26: after any set_name of a sender whose own normalised chat name has a
\* directory entry, also one with a name that owns no desk, a later
\* set_name or clear_name of that sender is still executed: their own
\* correction never locks a sender into the missing-desk reply.
C26_NeverLockedOut ==
    [][ \A h \in Handlers :
          ( /\ respond_pc[h] = "idle"
            /\ respond_pc'[h] # "idle"
            /\ webhook'[h][1].trigger = "direct_message"
            /\ parse_cmd(webhook'[h][1].data, now).kind \in {"SetName", "ClearName"}
            /\ refresh_pc # "storing"
            /\ MapGet(desk_owners, parse_zulip_username(webhook'[h][1].sender)) # << >>
            /\ MapGet(corrected_names, webhook'[h][1].sender) # << >> )
          => respond_pc'[h] = "run_command" ]_vars

\* C28: the directory and the corrections live apart: a step of the
\* refresh, whether the fetch succeeds or fails, leaves the corrections as
\* they are; a set_name or clear_name leaves the directory as it is; and
\* the corrections change only in the step in which a set_name or a
\* clear_name is executed, never in a refresh, in a lookup or as time
\* passes.
C28_IndependentLifecycles ==
    [][ /\ <<refresh_pc, fetched, last_fetch, refresh_result, desk_owners>>'
              # <<refresh_pc, fetched, last_fetch, refresh_result, desk_owners>>
           => corrected_names' = corrected_names
        /\ corrected_names' # corrected_names
           => \E h \in Handlers :
                /\ respond_pc[h] = "writing_corrected_names"
                /\ respond_pc'[h] = "sending_home"
                /\ webhook[h][1].trigger = "direct_message"
                /\ \/ IsSetNameLine(webhook[h][1].data)
                   \/ webhook[h][1].data = <<"c","l","e","a","r","_","n","a","m","e">>
        /\ \A h \in Handlers :
             ( /\ respond_pc'[h] # respond_pc[h]
               /\ respond_pc[h] \in {"run_command", "writing_corrected_names"} )
             => /\ desk_owners' = desk_owners
                /\ fetched' = fetched
        /\ \A h \in Handlers :
             ( respond_pc[h] = "idle" /\ respond_pc'[h] # "idle" )
             => corrected_names' = corrected_names ]_vars

\* Reached: a correction has outlived a successful refresh that emptied the
\* directory and a failed refresh after it
C28_Witness ==
    /\ corrected_names # {}
    /\ desk_owners = {}
    /\ last_fetch # << >>
    /\ refresh_pc = "sleeping"
    /\ refresh_result = << "Err" >>

(***************************************************************************)
(* Claims about the normaliser                                             *)
(***************************************************************************)
\* C4: the username normaliser is idempotent: normalising a normalised name
\* gives the same name again.
C4_Idempotent ==
    name_pc = "twice" => replaced_twice = replaced_name

\* A recognized parenthetical (pronouns or batch) starts at position i of s:
\* the position after it, 0 for none
RecognizedAt(s, i) ==
    IF MatchPronouns(s, i) > 0 THEN MatchPronouns(s, i) ELSE MatchBatch(s, i)

\* Further name text follows: after whitespace, something that does not
\* open a parenthetical
NameTextFollows(s, e) ==
    LET rest == TrimStart(SubSeq(s, e, Len(s)))
    IN  rest # << >> /\ Head(rest) \notin {"(", ")"}

\* C5: only a trailing run of recognized parentheticals is removed: a
\* pronoun or batch parenthetical that is followed by further name text is
\* still in the output.
C5_TrailingOnly ==
    name_pc # "input" =>
        \A i \in 1..Len(zulip_username) :
            LET e == RecognizedAt(zulip_username, i)
            IN  (e > 0 /\ NameTextFollows(zulip_username, e))
                    => IsInfix(SubSeq(zulip_username, i, e - 1), replaced_name)

\* The Name part of `Name (pronouns)? (cohort)?`: name text whose only
\* parentheticals are nicknames
C6Names ==
    { <<"J">>,
      <<"J"," ">>,
      <<" ","J">>,
      <<"J"," ","(","J","a","k","e",")"," ","Y">>,
      <<"J"," ","(","J","a","k","e",")"," ","Y"," ","(","Y","o",")">>,
      <<"J"," ","(","X","1","'","1","9",")">> }

\* Parentheticals that match neither pattern
C6Nicknames ==
    { <<"(","J","a","k","e",")">>, <<"(","Y","o",")">>, <<"(","X","1","'","1","9",")">> }

\* C6: for a display name `Name (pronouns)? (cohort)?` the normaliser
\* returns Name trimmed, the trailing pronoun and cohort parentheticals
\* removed; a parenthetical matching neither pattern stays in the output
\* wherever it stands.
C6_FormStripped ==
    name_pc # "input" =>
        /\ \A n \in C6Names :
           \A p \in PronounFragments \cup {<< >>} :
           \A c \in BatchFragments \cup {<< >>} :
                zulip_username = n \o p \o c => replaced_name = Trim(n)
        /\ \A q \in C6Nicknames :
                IsInfix(q, zulip_username) => IsInfix(q, replaced_name)

\* Reached: a name with a nickname, pronouns and a cohort has been
\* normalised to the name with its nickname
C6_Witness ==
    /\ name_pc = "once"
    /\ zulip_username =
         <<"J"," ","(","J","a","k","e",")"," ","Y"," ","(","h","e","/","h","i","m",")",
           " ","(","S","2","'","1","6",")">>
    /\ replaced_name = <<"J"," ","(","J","a","k","e",")"," ","Y">>

=============================================================================
